---- MODULE Spec2Model ----
(***************************************************************************)
(* A model of the channel-sharded routing and replication core of         *)
(* WuKongIM: cross-peer delivery with in-flight retry (server.go),        *)
(* slot-group propose/apply (server.go, cluster.go), the cluster          *)
(* configuration manager (cluster.go) and the leader-routed channel API   *)
(* (api_channel.go).                                                       *)
(*                                                                         *)
(* Each subsystem has its own variables, its own next-state relation and  *)
(* its own specification; the subsystems do not share state.              *)
(***************************************************************************)
EXTENDS Integers, Sequences, FiniteSets, TLC

(***************************************************************************)
(* Bounds of the model.                                                    *)
(***************************************************************************)
\* number of in-flight entries handed to the delivery queue
MaxEntries == 1
\* maxAttempts of the in-flight queue (spec 4.G)
MaxAttempts == 3
\* number of doCommand calls
MaxCalls == 2
\* most messages one AppendMessages command carries
MaxMsgs == 1
\* most entries of the peer group's log
MaxPeerLog == 4
\* number of HTTP requests to the channel API
MaxReqs == 2
\* most forwards of one HTTP request the model follows
MaxHops == 2
\* most leaders the peer group elects one after the other
MaxTerms == 3
\* most uids of one subscriber request
MaxSubscribers == 2
\* most messages of the channel the sync handler reads
MaxSeq == 10
\* number of goroutines that call the IP blacklist
MaxIpThreads == 2
\* most denied AllowIP calls of one ip between two additions of it
MaxBlockCount == 2
\* number of concurrent HTTP requests followed statement by statement
MaxChReqs == 3
\* number of events the cluster manager sends on readyChan
MaxEvents == 2
\* number of slots of the node that handles SlotActions
MaxStartSlots == 2
\* most actions of one SlotActions event
MaxActions == 2
\* number of SlotActions events the cluster manager sends
MaxStartEvents == 3

(***************************************************************************)
(* DELIVERY + RETRY: Server.startDeliveryPeerData and PeerInFlightQueue.   *)
(***************************************************************************)
VARIABLES
    queue,      \* PeerInFlightQueue: the entry numbers (No) in flight
    attempts,   \* attempts of each entry
    armed,      \* whether a timing-wheel timer of the entry is pending
    dpc,        \* dpc[no][a]: position of the a-th startDeliveryPeerData call of entry no
    destSeen,   \* messageIds the destination delivered, deduplicated by messageId
    acked,      \* entries whose forward RPC returned Success
    dropped     \* entries dropped at maxAttempts

deliveryVars == <<queue, attempts, armed, dpc, destSeen, acked, dropped>>

VARIABLES
    slotKnown,   \* slotKnown[n]: the cluster manager of n holds the slot (GetSlot is not nil)
    leaderHint,  \* leaderHint[n]: the slot leader the cluster manager of n holds (0: none)
    raftLeader,  \* the raft leader of the slot group (0: none)
    slotLog,     \* the committed log of the slot group
    cursor,      \* cursor[n]: how many log entries replica n has applied
    halted,      \* halted[n]: the group is halted on n after an apply error
    store,       \* store[n][ch]: the messages of channel ch in the storage of n
    results,     \* results[n]: the result entries OnSlotApply returned on n, in log order
    call         \* call[c]: a doCommand call

slotVars == <<slotKnown, leaderHint, raftLeader, slotLog, cursor, halted, store, results,
              call>>

VARIABLES
    peerLeader,  \* the raft leader of the peer group (0: none)
    peerTerm,    \* the number of leaders the peer group has elected
    peerLog,     \* the committed log of the peer group
    cfgApplied,  \* cfgApplied[n]: how many entries of the peer log n has applied
    cfg,         \* cfg[n]: the ClusterConfig the cluster manager of n holds
    leaderID,    \* leaderID[n]: the peer-group leader n has stored
    observed,    \* observed[n]: the slot leader SetSlotLeader recorded on n (0: none)
    started,     \* started[n]: the slot group runs on n
    ready,       \* ready[n]: SlotActions with a Start action wait in the readyChan of n
    req,         \* req[n]: the ProposeToPeer call in flight on n
    replicaCount \* opts.ReplicaCount, the same on every node of the cluster

configVars == <<peerLeader, peerTerm, peerLog, cfgApplied, cfg, leaderID, observed, started,
                ready, req, replicaCount>>

VARIABLES
    apiLeader,   \* apiLeader[n]: the slot leader SlotLeaderOfChannel returns on n (0: none)
    db,          \* the storage of the channel, as the store calls of the handlers see it
    cache,       \* cache[n]: the info of the channel the channel reactor of n caches
    areq,        \* areq[r]: an HTTP request to the channel API
    doneSeq      \* the requests answered with OK, in the order of their answers

apiVars == <<apiLeader, db, cache, areq, doneSeq>>

VARIABLES
    subscribers,     \* the subscriber set of the channel in the store
    existSubscribers,\* what addSubscriberWithReq read with GetSubscribers (empty on Reset)
    addReq,          \* the subscriberAddReq of the last addSubscriberWithReq call
    addCalls,        \* the argument lists of the AddSubscribers calls of the last call
    removeAllCalls   \* the number of RemoveAllSubscriber calls of the last call

subsVars == <<subscribers, existSubscribers, addReq, addCalls, removeAllCalls>>

VARIABLES
    lastSeq,    \* the channel holds the messages with seqs 1..lastSeq
    syncReq,    \* the request of the last syncMessages call
    syncLoad,   \* the store call the last syncMessages call made, and the
                \* lastSeq of the channel when it was made
    syncResp    \* the syncMessageResp the last syncMessages call answered

syncVars == <<lastSeq, syncReq, syncLoad, syncResp>>

VARIABLES
    srvOpts,     \* the options of the server: ClusterOn, Monitor.On, Demo.On
    srvPc,       \* "new", "started", "stopping" or "exited"
    stopIdx,     \* how many calls of Server.Stop have returned
    running,     \* the components that are started and not stopped
    work         \* work[k]: the request of kind k (a client packet, an API request)

lifeVars == <<srvOpts, srvPc, stopIdx, running, work>>

VARIABLES
    ipBlacklist, \* Server.ipBlacklist: the map from a blocked ip to its block count
    ipLock,      \* the goroutine that holds ipBlacklistLock (0: none)
    ipThr,       \* ipThr[t]: the blacklist call of goroutine t, and what its last
                 \* AllowIP call saw and returned
    denied       \* denied[ip]: the AllowIP calls that returned false for ip since
                 \* the map entry of ip was last written by an addition

ipVars == <<ipBlacklist, ipLock, ipThr, denied>>

VARIABLES
    chStore,     \* the channel in the storage of the node
    chCache,     \* the channel in the channel reactor of the node: whether it is
                 \* cached, its cached info and its receiver tag
    chReq        \* chReq[r]: an HTTP request, the statement its handler is at, what
                 \* the handler has read, the calls it has made, and what the
                 \* channel was when the handler started

chanVars == <<chStore, chCache, chReq>>

VARIABLES
    rtOpts,      \* rtOpts[n]: opts.SlotCount of node n (0: n is not constructed)
    rtCommitted, \* the slot count of the committed cluster configuration (0: none)
    rtSlotCount, \* rtSlotCount[n]: what GetSlotCount of the cluster manager of n returns
    rtApplied,   \* rtApplied[n]: n has applied the committed cluster configuration
    rtLast       \* rtLast[n]: the last getSlotID call on n

routeVars == <<rtOpts, rtCommitted, rtSlotCount, rtApplied, rtLast>>

VARIABLES
    lcReady,     \* the events sent on clusterManager.readyChan and not yet received
    lcPc,        \* where loopClusterConfig is: "select", a part of the event, "returned"
    lcEvent,     \* the event loopClusterConfig is handling
    lcInflight,  \* a ProposeToPeer call of the loop has not returned
    lcStopChan,  \* Cluster.stopChan: "open" or "closed"
    lcManager,   \* the cluster manager runs (Cluster.Stop stops it last)
    lcSent,      \* the number of events sent so far
    lcTaken,     \* the number of events the loop has received so far
    lcTrace      \* the parts the loop has handled: the number of the event, the part,
                 \* and whether its handler proposed

loopVars == <<lcReady, lcPc, lcEvent, lcInflight, lcStopChan, lcManager, lcSent, lcTaken,
              lcTrace>>

VARIABLES
    saConfig,    \* saConfig[s]: the peers of slot s in the node's configuration ({}: no slot)
    saStarted,   \* the slots multiRaft.IsStarted answers true for
    saCount,     \* saCount[s]: how many times the slot group of s has been started
    saLog,       \* the Start actions handled: the slot, what GetSlot and IsStarted
                 \* answered, and whether startSlot was called
    saChan,      \* readyChan: the SlotActions sent and not yet received
    saEvents     \* the number of SlotActions events sent so far

startVars == <<saConfig, saStarted, saCount, saLog, saChan, saEvents>>

\* the subsystems added after the handlers
extraVars == <<ipVars, chanVars, routeVars, loopVars, startVars>>

\* the subsystems of a single handler
handlerVars == <<subsVars, syncVars, lifeVars, extraVars>>

\* what the actions of one subsystem leave unchanged
notDelivery == <<slotVars, configVars, apiVars, handlerVars>>
notSlot == <<deliveryVars, configVars, apiVars, handlerVars>>
notConfig == <<deliveryVars, slotVars, apiVars, handlerVars>>
notApi == <<deliveryVars, slotVars, configVars, handlerVars>>
notSubs == <<deliveryVars, slotVars, configVars, apiVars, syncVars, lifeVars, extraVars>>
notSync == <<deliveryVars, slotVars, configVars, apiVars, subsVars, lifeVars, extraVars>>
notLife == <<deliveryVars, slotVars, configVars, apiVars, subsVars, syncVars, extraVars>>
notIp == <<deliveryVars, slotVars, configVars, apiVars, subsVars, syncVars, lifeVars,
          chanVars, routeVars, loopVars, startVars>>
notChan == <<deliveryVars, slotVars, configVars, apiVars, subsVars, syncVars, lifeVars,
            ipVars, routeVars, loopVars, startVars>>
notRoute == <<deliveryVars, slotVars, configVars, apiVars, subsVars, syncVars, lifeVars,
             ipVars, chanVars, loopVars, startVars>>
notLoop == <<deliveryVars, slotVars, configVars, apiVars, subsVars, syncVars, lifeVars,
            ipVars, chanVars, routeVars, startVars>>
notStart == <<deliveryVars, slotVars, configVars, apiVars, subsVars, syncVars, lifeVars,
             ipVars, chanVars, routeVars, loopVars>>

Nos == 1..MaxEntries
Calls == 0..(MaxAttempts - 1)

\* PeerInFlightData.Data of entry no carries one message; its messageId
MessageIdOf(no) == 100 + no

InitDelivery ==
    /\ queue = {}
    /\ attempts = [no \in Nos |-> 0]
    /\ armed = [no \in Nos |-> FALSE]
    /\ dpc = [no \in Nos |-> [a \in Calls |-> "none"]]
    /\ destSeen = {}
    /\ acked = {}
    /\ dropped = {}

\* how many forward RPCs have been sent for entry no
forwards(no) == Cardinality({a \in Calls : dpc[no][a] \in {"rpc", "recvd", "done"}})

\* PeerInFlightQueue.startInFlightTimeout: stamp the deadline, insert into the wheel
startInFlightTimeout(t, no) == [t EXCEPT ![no] = TRUE]

\* PeerInFlightQueue.finishMessage: remove the entry by its no
finishMessage(q, no) == q \ {no}

\* startDeliveryPeerData after ForwardRecvPacketReq returned (err: the RPC failed,
\* timed out or was answered with a status other than Success)
AfterForward_finishAlways(q, no, err) == finishMessage(q, no)

AfterForward_finishNever(q, no, err) == q

\* a handler that takes the error for the success
AfterForward_finishOnError(q, no, err) == IF err THEN finishMessage(q, no) ELSE q

AfterForward(q, no, err) == IF err THEN q ELSE finishMessage(q, no)

\* An entry is handed to the queue and its first delivery starts.
enqueue(no) ==
    /\ dpc[no][0] = "none"
    /\ queue' = queue \cup {no}
    /\ dpc' = [dpc EXCEPT ![no][0] = "arm"]
    /\ UNCHANGED <<attempts, armed, destSeen, acked, dropped, notDelivery>>

\* startDeliveryPeerData, line 387: the timeout is armed before the RPC
startDeliveryPeerData_arm(no, a) ==
    /\ dpc[no][a] = "arm"
    /\ armed' = startInFlightTimeout(armed, no)
    /\ dpc' = [dpc EXCEPT ![no][a] = "send"]
    /\ UNCHANGED <<queue, attempts, destSeen, acked, dropped, notDelivery>>

\* startDeliveryPeerData, line 389: ForwardRecvPacketReq sends the request
ForwardRecvPacketReq_send(no, a) ==
    /\ dpc[no][a] = "send"
    /\ dpc' = [dpc EXCEPT ![no][a] = "rpc"]
    /\ UNCHANGED <<queue, attempts, armed, destSeen, acked, dropped, notDelivery>>

\* The destination peer handles the ForwardRecvPacket request.
peerRecv(no, a) ==
    /\ dpc[no][a] = "rpc"
    /\ destSeen' = destSeen \cup {MessageIdOf(no)}
    /\ dpc' = [dpc EXCEPT ![no][a] = "recvd"]
    /\ UNCHANGED <<queue, attempts, armed, acked, dropped, notDelivery>>

\* ForwardRecvPacketReq returns and startDeliveryPeerData finishes, lines 390-398.
\* Success can only answer a request the destination handled; an error or a
\* timeout can come before or after that.
startDeliveryPeerData_return(no, a, err) ==
    /\ dpc[no][a] \in (IF err THEN {"rpc", "recvd"} ELSE {"recvd"})
    /\ queue' = AfterForward(queue, no, err)
    /\ acked' = IF err THEN acked ELSE acked \cup {no}
    /\ dpc' = [dpc EXCEPT ![no][a] = "done"]
    /\ UNCHANGED <<attempts, armed, destSeen, dropped, notDelivery>>

\* The timer of an entry expires (spec 4.G): if the entry is not finished,
\* attempts is incremented and the entry is dropped at maxAttempts or delivered again.
inFlightTimeout(no) ==
    /\ armed[no]
    /\ armed' = [armed EXCEPT ![no] = FALSE]
    /\ IF no \in queue
       THEN /\ attempts' = [attempts EXCEPT ![no] = @ + 1]
            /\ IF attempts[no] + 1 >= MaxAttempts
               THEN /\ queue' = queue \ {no}
                    /\ dropped' = dropped \cup {no}
                    /\ dpc' = dpc
               ELSE /\ dpc' = [dpc EXCEPT ![no][attempts[no] + 1] = "arm"]
                    /\ UNCHANGED <<queue, dropped>>
       ELSE UNCHANGED <<queue, attempts, dpc, dropped>>
    /\ UNCHANGED <<destSeen, acked, notDelivery>>

NextDelivery ==
    \/ \E no \in Nos : enqueue(no)
    \/ \E no \in Nos, a \in Calls : startDeliveryPeerData_arm(no, a)
    \/ \E no \in Nos, a \in Calls : ForwardRecvPacketReq_send(no, a)
    \/ \E no \in Nos, a \in Calls : peerRecv(no, a)
    \/ \E no \in Nos, a \in Calls, err \in BOOLEAN : startDeliveryPeerData_return(no, a, err)
    \/ \E no \in Nos : inFlightTimeout(no)


(***************************************************************************)
(* SLOT GROUPS: Server.doCommand, Cluster.SyncProposeToSlot,               *)
(* Cluster.sendSyncProposeToLeader and the OnSlotApply callback.           *)
(* One slot group; its replicas are SlotPeers, one node hosts no replica.  *)
(* The group's replicas are started (handleSlotActions), so the cluster    *)
(* managers of the replicas hold the slot; the third node may not yet.     *)
(***************************************************************************)
Nodes == {1, 2, 3}
SlotPeers == {1, 2}
SlotID == 1
Channels == {"g1", "g2"}
CallIds == 1..MaxCalls

\* CMDReq.Marshal / CMDReq.Unmarshal: the bytes of a command, and bytes that are no command
Marshal(cmd) == [tag |-> "CMDReq", cmd |-> cmd]
Garbage == [tag |-> "garbage"]
UnmarshalErr(data) == data.tag # "CMDReq"
Unmarshal(data) == data.cmd

\* CMDResp.Marshal / CMDResp.Unmarshal
MarshalResp(resp) == [tag |-> "CMDResp", resp |-> resp]
UnmarshalResp(data) == data.resp
NoData == [tag |-> "empty"]

\* Storage.GetLastMsgSeq: the highest assigned seq of the channel, or 0
RECURSIVE SetMax(_)
SetMax(S) == IF S = {} THEN 0
             ELSE LET x == CHOOSE y \in S : TRUE
                      m == SetMax(S \ {x})
                  IN IF x > m THEN x ELSE m

GetLastMsgSeq(st, ch) == SetMax({r.seq : r \in st[ch]})

\* Storage.AppendMessages: assigns the next seqs of the channel to the messages
AppendMessages(st, ch, mids) ==
    LET last == GetLastMsgSeq(st, ch)
    IN [st EXCEPT ![ch] = @ \cup {[seq |-> last + i, mid |-> mids[i]] : i \in 1..Len(mids)}]

\* FSM.Apply: the deterministic transform of a command into storage mutations.
\* AppendMessages answers with the assigned seqs; a channel command answers with
\* no response and changes channel records, which are not messages of the store
fsmApply(st, cmd, slotID) ==
    IF cmd.kind = "AppendMessages"
    THEN LET last == GetLastMsgSeq(st, cmd.ch)
         IN [err |-> FALSE,
             store |-> AppendMessages(st, cmd.ch, cmd.mids),
             resp |-> MarshalResp([slot |-> slotID, seqs |-> [i \in 1..Len(cmd.mids) |-> last + i]])]
    ELSE IF cmd.kind = "AddOrUpdateChannel"
    THEN [err |-> FALSE, store |-> st, resp |-> NoData]
    ELSE [err |-> TRUE, store |-> st, resp |-> NoData]

\* OnSlotApply, lines 141-160: the loop over the entries of one batch.
\* nOk counts the entries fsm.Apply has applied.
RECURSIVE ApplyEntries(_, _, _, _, _)
ApplyEntries(st, slotID, entries, acc, nOk) ==
    IF entries = <<>>
    THEN [err |-> FALSE, store |-> st, entries |-> acc, nOk |-> nOk]
    ELSE LET entry == Head(entries) IN
         IF UnmarshalErr(entry.data)
         THEN [err |-> TRUE, store |-> st, entries |-> <<>>, nOk |-> nOk]
         ELSE LET r == fsmApply(st, Unmarshal(entry.data), slotID) IN
              IF r.err
              THEN [err |-> TRUE, store |-> r.store, entries |-> <<>>, nOk |-> nOk]
              ELSE ApplyEntries(r.store, slotID, Tail(entries),
                                Append(acc, [entry EXCEPT !.result = r.resp]), nOk + 1)

\* a loop that stops one entry early
OnSlotApply_dropLast(st, slotID, entries) ==
    LET r == ApplyEntries(st, slotID, SubSeq(entries, 1, Len(entries) - 1), <<>>, 0)
    IN IF Len(entries) <= 1 THEN ApplyEntries(st, slotID, entries, <<>>, 0)
       ELSE [r EXCEPT !.entries = IF r.err THEN <<>> ELSE Append(@, entries[Len(entries)])]

\* a loop that writes the first entry's result into every entry
OnSlotApply_firstResult(st, slotID, entries) ==
    LET r == ApplyEntries(st, slotID, entries, <<>>, 0)
    IN [r EXCEPT !.entries = [i \in 1..Len(@) |-> [@[i] EXCEPT !.result = r.entries[1].result]]]

\* a loop that hands the results out in the reverse order of the entries
OnSlotApply_swapResults(st, slotID, entries) ==
    LET r == ApplyEntries(st, slotID, entries, <<>>, 0)
    IN [r EXCEPT !.entries =
           [i \in 1..Len(@) |-> [@[i] EXCEPT !.result = r.entries[Len(r.entries) + 1 - i].result]]]

\* a loop that returns the entries it got through together with the error
OnSlotApply_partialResults(st, slotID, entries) ==
    LET r == ApplyEntries(st, slotID, entries, <<>>, 0)
    IN [r EXCEPT !.entries = IF r.err THEN SubSeq(entries, 1, r.nOk) ELSE @]

\* clusterOpts.OnSlotApply
OnSlotApply(st, slotID, entries) ==
    IF Len(entries) = 0
    THEN [err |-> FALSE, store |-> st, entries |-> <<>>, nOk |-> 0]
    ELSE ApplyEntries(st, slotID, entries, <<>>, 0)

\* Cluster.SyncProposeToSlot, lines 320-338: where the proposal goes
SyncProposeToSlot_route_noPeerCheck(n) ==
    IF ~slotKnown[n] THEN "slotNil" ELSE "local"

SyncProposeToSlot_route(n) ==
    IF ~slotKnown[n] THEN "slotNil"
    ELSE IF n \in SlotPeers THEN "local"
    ELSE IF leaderHint[n] = 0 THEN "leaderNil"
    ELSE "remote"

\* a caller that looks at the error of SendCMD only, not at the status of the reply
sendSyncProposeToLeader_reply_errOnly(status) ==
    IF status = "rpcError" THEN "err" ELSE "ok"

\* Cluster.sendSyncProposeToLeader, lines 357-368: what the caller does with the reply
sendSyncProposeToLeader_reply(status) ==
    IF status # "Success" THEN "err" ELSE "ok"

IdleCall == [pc |-> "idle", node |-> 0, data |-> NoData, target |-> 0, idx |-> 0,
             rpcs |-> 0, status |-> "none", err |-> FALSE, result |-> NoData]

InitSlot ==
    /\ slotKnown = [n \in Nodes |-> n \in SlotPeers]
    /\ leaderHint = [n \in Nodes |-> 0]
    /\ raftLeader = 0
    /\ slotLog = <<>>
    /\ cursor = [n \in SlotPeers |-> 0]
    /\ halted = [n \in SlotPeers |-> FALSE]
    /\ store = [n \in SlotPeers |-> [ch \in Channels |-> {}]]
    /\ results = [n \in SlotPeers |-> <<>>]
    /\ call = [c \in CallIds |-> IdleCall]

\* the messageIds the k messages of call c carry
MidsOf(c, k) == [i \in 1..k |-> 10 * c + i]

\* the bytes a caller can hand to SyncProposeToSlot
\* (the channels are interchangeable: the first call uses the first one)
Datas(c) ==
    {Marshal([id |-> c, kind |-> "AppendMessages", ch |-> ch, mids |-> MidsOf(c, k)]) :
        ch \in (IF c = 1 THEN {"g1"} ELSE Channels), k \in 1..MaxMsgs}
    \cup {Marshal([id |-> c, kind |-> "AddOrUpdateChannel", ch |-> "g1"]),
          Marshal([id |-> c, kind |-> "Unknown"]), Garbage}

\* the cluster manager of n applies the allocation of the slot
learnSlot(n) ==
    /\ ~slotKnown[n]
    /\ slotKnown' = [slotKnown EXCEPT ![n] = TRUE]
    /\ UNCHANGED <<leaderHint, raftLeader, slotLog, cursor, halted, store, results, call, notSlot>>

\* the cluster manager of n takes over the leader of the slot; SyncProposeToSlot
\* reads the leader only on a node that hosts no replica
learnLeader(n) ==
    /\ n \notin SlotPeers
    /\ slotKnown[n]
    /\ raftLeader # 0
    /\ leaderHint[n] # raftLeader
    /\ leaderHint' = [leaderHint EXCEPT ![n] = raftLeader]
    /\ UNCHANGED <<slotKnown, raftLeader, slotLog, cursor, halted, store, results, call, notSlot>>

\* the slot group, started on the replicas that hold the slot, elects a leader
electLeader(l) ==
    /\ slotKnown[l]
    /\ l # raftLeader
    /\ raftLeader' = l
    /\ UNCHANGED <<slotKnown, leaderHint, slotLog, cursor, halted, store, results, call, notSlot>>

\* doCommand, lines 375-380: the result bytes become the response
doCommand_result(data) == IF data = NoData THEN NoData ELSE UnmarshalResp(data)

\* a call ends: with an error, or with the response made of the result bytes
callDone(cl, status, err, data) ==
    [cl EXCEPT !.pc = "done", !.status = status, !.err = err, !.target = 0, !.idx = 0,
               !.result = IF err THEN NoData ELSE doCommand_result(data)]

\* sendSyncProposeToLeader, lines 357-368, and SyncProposeToSlot, lines 343-346:
\* the reply of the SendSyncPropose RPC reaches the caller
sendSyncProposeToLeader_return(cl, status, data) ==
    callDone(cl, status, sendSyncProposeToLeader_reply(status) # "ok", data)

\* doCommand, lines 360-371, into SyncProposeToSlot, lines 320-342: the cluster manager
\* is read and the bytes go to the local slot group or, by RPC, to the slot leader
doCommand(c, n, data) ==
    /\ call[c].pc = "idle"
    /\ LET route == SyncProposeToSlot_route(n)
           base == [call[c] EXCEPT !.node = n, !.data = data]
       IN call' = [call EXCEPT ![c] =
               CASE route = "local" -> [base EXCEPT !.pc = "propose"]
                 [] route = "remote" ->
                        [base EXCEPT !.pc = "rpc", !.target = leaderHint[n], !.rpcs = @ + 1]
                 [] OTHER -> callDone(base, route, TRUE, NoData)]
    /\ UNCHANGED <<slotKnown, leaderHint, raftLeader, slotLog, cursor, halted, store, results, notSlot>>

\* an idle call is handed to doCommand on some node with some bytes
doCommand_any(c) == \E n \in Nodes, data \in Datas(c) : doCommand(c, n, data)

\* multiRaft.SyncProposeToSlot, line 332: the node proposes to its local slot group;
\* the group commits the entry, or refuses it (no leader, queue full, timeout)
SyncProposeToSlot_local(c, committed) ==
    /\ call[c].pc = "propose"
    /\ IF committed
       THEN /\ raftLeader # 0
            /\ slotLog' = Append(slotLog, [data |-> call[c].data, result |-> NoData])
            /\ call' = [call EXCEPT ![c].pc = "wait", ![c].idx = Len(slotLog) + 1]
       ELSE /\ slotLog' = slotLog
            /\ call' = [call EXCEPT ![c] = callDone(@, "propose", TRUE, NoData)]
    /\ UNCHANGED <<slotKnown, leaderHint, raftLeader, cursor, halted, store, results, notSlot>>

\* multiRaft.SyncProposeToSlot returns the apply result of the proposer's node
SyncProposeToSlot_localReturn(c) ==
    /\ call[c].pc = "wait"
    /\ LET n == call[c].node IN
       \/ /\ Len(results[n]) >= call[c].idx
          /\ call' = [call EXCEPT ![c] =
                         callDone(@, "Success", FALSE, results[n][call[c].idx].result)]
       \/ /\ halted[n]
          /\ call' = [call EXCEPT ![c] = callDone(@, "apply", TRUE, NoData)]
    /\ UNCHANGED <<slotKnown, leaderHint, raftLeader, slotLog, cursor, halted, store, results, notSlot>>

\* the peer RPC server of the target handles SendSyncPropose (spec 4.H): a node
\* that is not the leader answers NotLeader, the leader proposes
peerSyncPropose(c) ==
    /\ call[c].pc = "rpc"
    /\ IF call[c].target # raftLeader
       THEN /\ call' = [call EXCEPT ![c] = sendSyncProposeToLeader_return(@, "NotLeader", NoData)]
            /\ UNCHANGED slotLog
       ELSE /\ slotLog' = Append(slotLog, [data |-> call[c].data, result |-> NoData])
            /\ call' = [call EXCEPT ![c].pc = "rwait", ![c].idx = Len(slotLog) + 1]
    /\ UNCHANGED <<slotKnown, leaderHint, raftLeader, cursor, halted, store, results, notSlot>>

\* the target answers with the apply result, or with Error when its group halted
peerSyncProposeReply(c) ==
    /\ call[c].pc = "rwait"
    /\ LET t == call[c].target IN
       \/ /\ Len(results[t]) >= call[c].idx
          /\ call' = [call EXCEPT ![c] =
                         sendSyncProposeToLeader_return(@, "Success", results[t][call[c].idx].result)]
       \/ /\ halted[t]
          /\ call' = [call EXCEPT ![c] = sendSyncProposeToLeader_return(@, "Error", NoData)]
    /\ UNCHANGED <<slotKnown, leaderHint, raftLeader, slotLog, cursor, halted, store, results, notSlot>>

\* the RPC fails: the target answers Unavailable, or SendCMD returns an error (a timeout)
peerSyncProposeFail(c, status) ==
    /\ call[c].pc \in {"rpc", "rwait"}
    /\ call' = [call EXCEPT ![c] = sendSyncProposeToLeader_return(@, status, NoData)]
    /\ UNCHANGED <<slotKnown, leaderHint, raftLeader, slotLog, cursor, halted, store, results, notSlot>>

\* the slot group of replica n hands its next k committed entries to OnSlotApply;
\* an apply error halts the group on n (spec 4.E)
applySlot(n, k) ==
    /\ slotKnown[n]
    /\ ~halted[n]
    /\ cursor[n] + k <= Len(slotLog)
    /\ LET r == OnSlotApply(store[n], SlotID, SubSeq(slotLog, cursor[n] + 1, cursor[n] + k))
       IN /\ store' = [store EXCEPT ![n] = r.store]
          /\ halted' = [halted EXCEPT ![n] = r.err]
          /\ cursor' = [cursor EXCEPT ![n] = IF r.err THEN @ + r.nOk ELSE @ + k]
          /\ results' = [results EXCEPT ![n] = IF r.err THEN @ ELSE @ \o r.entries]
    /\ UNCHANGED <<slotKnown, leaderHint, raftLeader, slotLog, call, notSlot>>

NextSlot ==
    \/ \E n \in Nodes : learnSlot(n)
    \/ \E n \in Nodes : learnLeader(n)
    \/ \E l \in SlotPeers : electLeader(l)
    \/ \E c \in CallIds : doCommand_any(c)
    \/ \E c \in CallIds, committed \in BOOLEAN : SyncProposeToSlot_local(c, committed)
    \/ \E c \in CallIds : SyncProposeToSlot_localReturn(c)
    \/ \E c \in CallIds : peerSyncPropose(c)
    \/ \E c \in CallIds : peerSyncProposeReply(c)
    \/ \E c \in CallIds, status \in {"Unavailable", "rpcError"} : peerSyncProposeFail(c, status)
    \/ \E n \in SlotPeers, k \in 1..MaxCalls : applySlot(n, k)

(***************************************************************************)
(* CLUSTER CONFIGURATION: the OnLeaderChanged callback, bootstrap,         *)
(* loopClusterConfig and its request* handlers, over the cluster manager   *)
(* and the peer raft group. The cluster has one slot.                      *)
(***************************************************************************)
\* opts.Peers: the static seed list, which is the cluster
SeedPeers == {1, 2}
\* the values of opts.ReplicaCount the cluster is configured with
ReplicaCounts == {1, 2}

\* peers: the peers; api: the peers whose API address is known; slot: the peers of
\* the slot ({}: not allocated); leader: the leader of the slot (0: none)
EmptyConfig == [peers |-> {}, api |-> {}, slot |-> {}, leader |-> 0]

\* pb.NewCMDReq(kind) with req.Param = param.Marshal(), then req.Marshal()
NewCMDReq(kind, param) == Marshal([kind |-> kind, param |-> param])

\* reads of the cluster manager
GetPeers(n) == cfg[n].peers
GetPeer(n, p) == IF p \in cfg[n].peers
                THEN [PeerID |-> p, ApiServerAddr |-> p \in cfg[n].api]
                ELSE [PeerID |-> 0, ApiServerAddr |-> FALSE]
GetSlot(n) == cfg[n].slot
GetLeaderPeer(n) == cfg[n].leader

\* ClusterManager.UpdatedSlotLeaderRelations: the relations are applied locally
UpdatedSlotLeaderRelations(c, leader) == [c EXCEPT !.leader = leader]

\* requestUpdateSlotLeaderRelationSet, lines 283-288, with the local apply done
\* whatever ProposeToPeer returned
requestUpdateSlotLeaderRelationSet_applyAlways(c, leader, err) ==
    UpdatedSlotLeaderRelations(c, leader)

\* requestUpdateSlotLeaderRelationSet, lines 283-288, with the test of the error
\* of ProposeToPeer inverted: the local apply is done when the proposal failed
requestUpdateSlotLeaderRelationSet_applyOnError(c, leader, err) ==
    IF err THEN UpdatedSlotLeaderRelations(c, leader) ELSE c

\* requestUpdateSlotLeaderRelationSet, lines 283-288: after ProposeToPeer
requestUpdateSlotLeaderRelationSet_after(c, leader, err) ==
    IF err THEN c ELSE UpdatedSlotLeaderRelations(c, leader)

\* the apply thread of the peer group applies one committed command
applyConfig(c, cmd) ==
    CASE cmd.kind = "UpdateClusterConfig" -> [c EXCEPT !.peers = cmd.param]
      [] cmd.kind = "UpdatePeerConfig" ->
            [c EXCEPT !.peers = @ \cup {cmd.param}, !.api = @ \cup {cmd.param}]
      [] cmd.kind = "AllocateSlot" -> [c EXCEPT !.slot = cmd.param]
      [] cmd.kind = "UpdateSlotLeaderRelationSet" -> [c EXCEPT !.leader = cmd.param]
      [] OTHER -> c

IdleReq == [pc |-> "idle", data |-> NoData, idx |-> 0, from |-> "none"]

InitConfig ==
    /\ peerLeader = 0
    /\ peerTerm = 0
    /\ peerLog = <<>>
    /\ cfgApplied = [n \in SeedPeers |-> 0]
    /\ cfg = [n \in SeedPeers |-> EmptyConfig]
    /\ leaderID = [n \in SeedPeers |-> 0]
    /\ observed = [n \in SeedPeers |-> 0]
    /\ started = [n \in SeedPeers |-> FALSE]
    /\ ready = [n \in SeedPeers |-> FALSE]
    /\ req = [n \in SeedPeers |-> IdleReq]
    /\ replicaCount \in ReplicaCounts

\* a handler of n hands data to ProposeToPeer and blocks
ProposeToPeer(n, data, from) ==
    req' = [req EXCEPT ![n] = [pc |-> "propose", data |-> data, idx |-> 0, from |-> from]]

\* the peer group elects its leader
electPeerLeader(l) ==
    /\ peerLeader = 0
    /\ peerLeader' = l
    /\ peerTerm' = 1
    /\ UNCHANGED <<peerLog, cfgApplied, cfg, leaderID, observed, started, ready, req, replicaCount, notConfig>>

\* the peer group moves its leadership to another peer
peerLeaderChanged(l) ==
    /\ peerLeader # 0
    /\ peerLeader # l
    /\ peerTerm < MaxTerms
    /\ peerLeader' = l
    /\ peerTerm' = peerTerm + 1
    /\ UNCHANGED <<peerLog, cfgApplied, cfg, leaderID, observed, started, ready, req, replicaCount, notConfig>>

\* OnLeaderChanged for the peer group without the call of bootstrap
OnLeaderChanged_peer_noBootstrap(n) ==
    /\ peerLeader # 0
    /\ leaderID[n] # peerLeader
    /\ req[n].pc = "idle"
    /\ leaderID' = [leaderID EXCEPT ![n] = peerLeader]
    /\ UNCHANGED req
    /\ UNCHANGED <<peerLeader, peerTerm, peerLog, cfgApplied, cfg, observed, started, ready, replicaCount, notConfig>>

\* OnLeaderChanged, lines 101-110, for the peer group: the new leader bootstraps,
\* which blocks in ProposeToPeer when the cluster has no peers yet
OnLeaderChanged_peer(n) ==
    /\ peerLeader # 0
    /\ leaderID[n] # peerLeader
    /\ req[n].pc = "idle"
    /\ IF peerLeader = n /\ GetPeers(n) = {} /\ SeedPeers # {}
       THEN /\ ProposeToPeer(n, NewCMDReq("UpdateClusterConfig", SeedPeers), "bootstrap")
            /\ UNCHANGED leaderID
       ELSE /\ leaderID' = [leaderID EXCEPT ![n] = peerLeader]
            /\ UNCHANGED req
    /\ UNCHANGED <<peerLeader, peerTerm, peerLog, cfgApplied, cfg, observed, started, ready, replicaCount, notConfig>>

\* OnLeaderChanged, line 112, for the slot group: SetSlotLeader records the leader
OnLeaderChanged_slot(n, l) ==
    /\ started[n]
    /\ l \in cfg[n].slot
    /\ observed[n] # l
    /\ observed' = [observed EXCEPT ![n] = l]
    /\ UNCHANGED <<peerLeader, peerTerm, peerLog, cfgApplied, cfg, leaderID, started, ready, req, replicaCount, notConfig>>

\* loopClusterConfig, lines 190-192: requestAllocateSlotSet proposes the peers the
\* cluster manager of the leader chose for the unallocated slot
requestAllocateSlotSet(n, ps) ==
    /\ req[n].pc = "idle"
    /\ leaderID[n] = n
    /\ ps \subseteq GetPeers(n)
    /\ Cardinality(ps) = replicaCount
    /\ GetSlot(n) = {}
    /\ ProposeToPeer(n, NewCMDReq("AllocateSlot", ps), "loop")
    /\ UNCHANGED <<peerLeader, peerTerm, peerLog, cfgApplied, cfg, leaderID, observed, started, ready, replicaCount, notConfig>>

\* the cluster manager of n finds that the slot's group should run on n and
\* is not started, and sends SlotActions with a Start action to readyChan
slotActionsReady(n) ==
    /\ ~ready[n]
    /\ n \in GetSlot(n)
    /\ ~started[n]
    /\ ready' = [ready EXCEPT ![n] = TRUE]
    /\ UNCHANGED <<peerLeader, peerTerm, peerLog, cfgApplied, cfg, leaderID, observed, started,
                   req, replicaCount, notConfig>>

\* a handler that starts the slot whenever it is in the configuration
handleSlotActions_start_noIsStarted(slot, isStarted) == slot # {}

\* handleSlotActions, lines 214-218, for a Start action: whether startSlot is
\* called, given the slot GetSlot returned ({}: nil) and IsStarted
handleSlotActions_start(slot, isStarted) == slot # {} /\ ~isStarted

\* loopClusterConfig, lines 193-195: handleSlotActions takes the SlotActions
\* from readyChan and starts the local replica of the slot
handleSlotActions(n) ==
    /\ ready[n]
    /\ ready' = [ready EXCEPT ![n] = FALSE]
    /\ started' = [started EXCEPT ![n] = @ \/ handleSlotActions_start(GetSlot(n), @)]
    /\ UNCHANGED <<peerLeader, peerTerm, peerLog, cfgApplied, cfg, leaderID, observed, req,
                   replicaCount, notConfig>>

\* loopClusterConfig, lines 196-198: requestUpdatePeer proposes the node's own peer,
\* with the API address the seed of bootstrap (lines 166-172) does not carry
requestUpdatePeer(n) ==
    /\ req[n].pc = "idle"
    /\ GetPeer(n, n).PeerID = n
    /\ ~GetPeer(n, n).ApiServerAddr
    /\ ProposeToPeer(n, NewCMDReq("UpdatePeerConfig", n), "loop")
    /\ UNCHANGED <<peerLeader, peerTerm, peerLog, cfgApplied, cfg, leaderID, observed, started, ready, replicaCount, notConfig>>

\* loopClusterConfig, lines 199-201: requestUpdateSlotLeaderRelationSet proposes the
\* leader SetSlotLeader recorded, when it differs from the one of the config
requestUpdateSlotLeaderRelationSet(n) ==
    /\ req[n].pc = "idle"
    /\ observed[n] # 0
    /\ observed[n] # GetLeaderPeer(n)
    /\ ProposeToPeer(n, NewCMDReq("UpdateSlotLeaderRelationSet", observed[n]), "loop")
    /\ UNCHANGED <<peerLeader, peerTerm, peerLog, cfgApplied, cfg, leaderID, observed, started, ready, replicaCount, notConfig>>

\* multiRaft.SyncProposeToPeer: the peer group commits the entry
ProposeToPeer_commit(n) ==
    /\ req[n].pc = "propose"
    /\ peerLeader # 0
    /\ Len(peerLog) < MaxPeerLog
    /\ peerLog' = Append(peerLog, req[n].data)
    /\ req' = [req EXCEPT ![n].pc = "wait", ![n].idx = Len(peerLog) + 1]
    /\ UNCHANGED <<peerLeader, peerTerm, cfgApplied, cfg, leaderID, observed, started, ready, replicaCount, notConfig>>

\* what a handler does once ProposeToPeer has returned
afterPropose(n, err) ==
    LET cmd == Unmarshal(req[n].data) IN
    /\ req' = [req EXCEPT ![n] = IdleReq]
    /\ cfg' = IF cmd.kind = "UpdateSlotLeaderRelationSet"
              THEN [cfg EXCEPT ![n] = requestUpdateSlotLeaderRelationSet_after(@, cmd.param, err)]
              ELSE cfg
    /\ leaderID' = IF req[n].from = "bootstrap" /\ ~err
                   THEN [leaderID EXCEPT ![n] = n]
                   ELSE leaderID

\* multiRaft.SyncProposeToPeer times out, before the entry is committed or after
ProposeToPeer_timeout(n) ==
    /\ req[n].pc \in {"propose", "wait"}
    /\ afterPropose(n, TRUE)
    /\ UNCHANGED <<peerLeader, peerTerm, peerLog, cfgApplied, observed, started, ready, replicaCount, notConfig>>

\* multiRaft.SyncProposeToPeer returns nil: the entry is committed and applied on n
ProposeToPeer_return(n) ==
    /\ req[n].pc = "wait"
    /\ cfgApplied[n] >= req[n].idx
    /\ afterPropose(n, FALSE)
    /\ UNCHANGED <<peerLeader, peerTerm, peerLog, cfgApplied, observed, started, ready, replicaCount, notConfig>>

\* onNodeApply: the apply thread of the peer group on n applies the next entry
onNodeApply(n) ==
    /\ cfgApplied[n] < Len(peerLog)
    /\ cfgApplied' = [cfgApplied EXCEPT ![n] = @ + 1]
    /\ cfg' = [cfg EXCEPT ![n] = applyConfig(@, Unmarshal(peerLog[cfgApplied[n] + 1]))]
    /\ UNCHANGED <<peerLeader, peerTerm, peerLog, leaderID, observed, started, ready, req, replicaCount, notConfig>>

NextConfig ==
    \/ \E l \in SeedPeers : electPeerLeader(l)
    \/ \E n \in SeedPeers : OnLeaderChanged_peer(n)
    \/ \E n \in SeedPeers, l \in SeedPeers : OnLeaderChanged_slot(n, l)
    \/ \E n \in SeedPeers, ps \in SUBSET SeedPeers : requestAllocateSlotSet(n, ps)
    \/ \E n \in SeedPeers : slotActionsReady(n)
    \/ \E n \in SeedPeers : handleSlotActions(n)
    \/ \E n \in SeedPeers : requestUpdatePeer(n)
    \/ \E n \in SeedPeers : requestUpdateSlotLeaderRelationSet(n)
    \/ \E n \in SeedPeers : ProposeToPeer_commit(n)
    \/ \E n \in SeedPeers : ProposeToPeer_timeout(n)
    \/ \E n \in SeedPeers : ProposeToPeer_return(n)
    \/ \E n \in SeedPeers : onNodeApply(n)

\* the bootstrap of the cluster under leader changes of the peer group:
\* elections, the OnLeaderChanged callback with its bootstrap proposal, and
\* the peer log with its apply threads
NextBootstrap ==
    \/ \E l \in SeedPeers : electPeerLeader(l)
    \/ \E l \in SeedPeers : peerLeaderChanged(l)
    \/ \E n \in SeedPeers : OnLeaderChanged_peer(n)
    \/ \E n \in SeedPeers : ProposeToPeer_commit(n)
    \/ \E n \in SeedPeers : ProposeToPeer_timeout(n)
    \/ \E n \in SeedPeers : ProposeToPeer_return(n)
    \/ \E n \in SeedPeers : onNodeApply(n)

\* the bootstrap with a live majority: no proposal to the peer group times out
NextBootstrapLive ==
    \/ \E l \in SeedPeers : electPeerLeader(l)
    \/ \E l \in SeedPeers : peerLeaderChanged(l)
    \/ \E n \in SeedPeers : OnLeaderChanged_peer(n)
    \/ \E n \in SeedPeers : ProposeToPeer_commit(n)
    \/ \E n \in SeedPeers : ProposeToPeer_return(n)
    \/ \E n \in SeedPeers : onNodeApply(n)

(***************************************************************************)
(* CHANNEL API: the leader-routed handlers of api_channel.go, in cluster   *)
(* mode (ClusterOn), on one channel of one slot.                           *)
(***************************************************************************)
ReqIds == 1..MaxReqs
Uids == {"u1", "u2"}
Endpoints == {"/channel", "/channel/info", "/channel/delete",
              "/channel/subscriber_add", "/channel/subscriber_remove",
              "/channel/blacklist_add", "/channel/blacklist_set", "/channel/blacklist_remove",
              "/channel/whitelist_add", "/channel/whitelist_set", "/channel/whitelist_remove",
              "/channel/messagesync", "/channel/max_message_seq"}

\* the JSON bytes of a request body, and BindJSON, which returns the bytes and the
\* bound request
JSON(r) == [tag |-> "json", req |-> r]
BindJSON(bodyBytes) ==
    IF bodyBytes.tag = "json" THEN [err |-> FALSE, req |-> bodyBytes.req]
    ELSE [err |-> TRUE, req |-> [id |-> 0, uids |-> {}]]

\* req.Check and the checks before the routing block: blacklist_add, lines 340-343,
\* and whitelist_add refuse an empty UID list
Check(ep, rq) ==
    IF ep \in {"/channel/blacklist_add", "/channel/whitelist_add"} THEN rq.uids # {}
    ELSE TRUE

\* leaderInfo.Id == NodeId, line 87 and its copies in the other handlers
leaderIsSelf_always(n, leader) == TRUE

leaderIsSelf(n, leader) == leader = n

\* c.ForwardWithBody(leader address + path, bodyBytes), line 90 and its copies
ForwardWithBody(rq, leader, bodyBytes) ==
    [rq EXCEPT !.at = leader, !.body = bodyBytes, !.hops = @ + 1]

\* the store calls a handler makes once it handles the request locally
StoreCalls(ep, rq) ==
    CASE ep = "/channel" ->
            <<"AddOrUpdateChannel", "RemoveAllSubscriber">>
            \o (IF rq.uids # {} THEN <<"AddSubscribers">> ELSE <<>>) \o <<"cacheInfo">>
      [] ep = "/channel/info" -> <<"AddOrUpdateChannel", "cacheInfo">>
      [] ep = "/channel/delete" -> <<"DeleteChannelAndClearMessages">>
      [] ep = "/channel/subscriber_add" -> <<"ExistChannel", "AddSubscribers">>
      [] ep = "/channel/subscriber_remove" -> <<"RemoveSubscribers">>
      [] ep = "/channel/blacklist_add" -> <<"AddDenylist">>
      [] ep = "/channel/blacklist_set" ->
            <<"RemoveAllDenylist">> \o (IF rq.uids # {} THEN <<"AddDenylist">> ELSE <<>>)
      [] ep = "/channel/blacklist_remove" -> <<"RemoveDenylist">>
      [] ep = "/channel/whitelist_add" -> <<"AddAllowlist">>
      [] ep = "/channel/whitelist_set" ->
            <<"RemoveAllAllowlist">> \o (IF rq.uids # {} THEN <<"AddAllowlist">> ELSE <<>>)
      [] ep = "/channel/whitelist_remove" -> <<"RemoveAllowlist">>
      [] OTHER -> <<>>

\* one store call on the storage of the channel
StoreCall(d, op, rq) ==
    CASE op = "AddOrUpdateChannel" -> [d EXCEPT !.info = rq.id]
      [] op = "ExistChannel" -> IF d.info = 0 THEN [d EXCEPT !.info = rq.id] ELSE d
      [] op = "DeleteChannelAndClearMessages" -> [d EXCEPT !.info = 0]
      [] op = "RemoveAllSubscriber" -> [d EXCEPT !.subscribers = {}]
      [] op = "AddSubscribers" -> [d EXCEPT !.subscribers = @ \cup rq.uids]
      [] op = "RemoveSubscribers" -> [d EXCEPT !.subscribers = @ \ rq.uids]
      [] op = "RemoveAllDenylist" -> [d EXCEPT !.denylist = {}]
      [] op = "AddDenylist" -> [d EXCEPT !.denylist = @ \cup rq.uids]
      [] op = "RemoveDenylist" -> [d EXCEPT !.denylist = @ \ rq.uids]
      [] op = "RemoveAllAllowlist" -> [d EXCEPT !.allowlist = {}]
      [] op = "AddAllowlist" -> [d EXCEPT !.allowlist = @ \cup rq.uids]
      [] op = "RemoveAllowlist" -> [d EXCEPT !.allowlist = @ \ rq.uids]
      [] OTHER -> d

IdleReqApi == [pc |-> "idle", ep |-> "none", body |-> NoData, at |-> 0, hops |-> 0,
               step |-> 0, leaderSeen |-> 0]

InitApi ==
    /\ apiLeader = [n \in SeedPeers |-> 0]
    /\ db = [info |-> 0, subscribers |-> {}, denylist |-> {}, allowlist |-> {}]
    /\ cache = [n \in SeedPeers |-> 0]
    /\ areq = [r \in ReqIds |-> IdleReqApi]
    /\ doneSeq = <<>>

\* the bodies a client sends with request r: JSON with the UIDs of the request, or
\* bytes that are no JSON
Bodies(r) ==
    {JSON([id |-> r, uids |-> {IF r = 1 THEN "u1" ELSE "u2"}]), Garbage}

\* the cluster manager of n takes over a leader of the slot
apiLeaderChanged(n, l) ==
    /\ apiLeader[n] # l
    /\ apiLeader' = [apiLeader EXCEPT ![n] = l]
    /\ UNCHANGED <<db, cache, areq, doneSeq, notApi>>

\* a client sends a request to the API of node n
clientRequest(r, ep, bodyBytes, n) ==
    /\ areq[r].pc = "idle"
    /\ areq' = [areq EXCEPT ![r] = [IdleReqApi EXCEPT !.pc = "recv", !.ep = ep,
                                                       !.body = bodyBytes, !.at = n]]
    /\ UNCHANGED <<apiLeader, db, cache, doneSeq, notApi>>

\* the handler answers: with an error, or with OK
ResponseError(rq) == [IdleReqApi EXCEPT !.pc = "error"]
ResponseOK(rq) == [IdleReqApi EXCEPT !.pc = "ok", !.ep = rq.ep, !.body = rq.body]

\* the head of a handler: BindJSON, the checks, and the routing block
\* (lines 64-93 of channelCreateOrUpdate and the same lines of the other handlers)
handlerRoute(r) ==
    LET rq == areq[r]
        n == rq.at
        b == BindJSON(rq.body)
        leader == apiLeader[n]
    IN /\ rq.pc = "recv"
       /\ IF b.err \/ ~Check(rq.ep, b.req) \/ leader = 0
          THEN areq' = [areq EXCEPT ![r] = ResponseError(rq)]
          ELSE IF ~leaderIsSelf(n, leader)
          THEN /\ rq.hops < MaxHops
               /\ areq' = [areq EXCEPT ![r] =
                              ForwardWithBody([rq EXCEPT !.leaderSeen = leader], leader, rq.body)]
          ELSE IF StoreCalls(rq.ep, b.req) = <<>>
          THEN areq' = [areq EXCEPT ![r] = ResponseOK(rq)]
          ELSE areq' = [areq EXCEPT ![r].leaderSeen = leader, ![r].pc = "store", ![r].step = 1]
       /\ doneSeq' = IF areq'[r].pc = "ok" THEN Append(doneSeq, r) ELSE doneSeq
       /\ UNCHANGED <<apiLeader, db, cache, notApi>>

\* the body of a handler: its next store call, or the update of the cached channel
handlerStore(r) ==
    LET rq == areq[r]
        b == BindJSON(rq.body)
        calls == StoreCalls(rq.ep, b.req)
        op == calls[rq.step]
    IN /\ rq.pc = "store"
       /\ db' = StoreCall(db, op, b.req)
       /\ cache' = IF op = "cacheInfo" THEN [cache EXCEPT ![rq.at] = b.req.id] ELSE cache
       /\ areq' = [areq EXCEPT ![r] = IF rq.step = Len(calls) THEN ResponseOK(rq)
                                      ELSE [rq EXCEPT !.step = @ + 1]]
       /\ doneSeq' = IF rq.step = Len(calls) THEN Append(doneSeq, r) ELSE doneSeq
       /\ UNCHANGED <<apiLeader, notApi>>

\* a step of a handler for request r
handler(r) == handlerRoute(r) \/ handlerStore(r)

channelCreateOrUpdate(r) ==
    /\ areq[r].ep = "/channel"
    /\ handler(r)

updateOrAddChannelInfo(r) ==
    /\ areq[r].ep = "/channel/info"
    /\ handler(r)

channelDelete(r) ==
    /\ areq[r].ep = "/channel/delete"
    /\ handler(r)

addSubscriber(r) ==
    /\ areq[r].ep = "/channel/subscriber_add"
    /\ handler(r)

removeSubscriber(r) ==
    /\ areq[r].ep = "/channel/subscriber_remove"
    /\ handler(r)

blacklistAdd(r) ==
    /\ areq[r].ep = "/channel/blacklist_add"
    /\ handler(r)

blacklistSet(r) ==
    /\ areq[r].ep = "/channel/blacklist_set"
    /\ handler(r)

blacklistRemove(r) ==
    /\ areq[r].ep = "/channel/blacklist_remove"
    /\ handler(r)

whitelistAdd(r) ==
    /\ areq[r].ep = "/channel/whitelist_add"
    /\ handler(r)

whitelistSet(r) ==
    /\ areq[r].ep = "/channel/whitelist_set"
    /\ handler(r)

whitelistRemove(r) ==
    /\ areq[r].ep = "/channel/whitelist_remove"
    /\ handler(r)

\* cluster.LeaderOfChannelForRead on node n: the leader of the channel, or
\* ErrChannelClusterConfigNotFound while the cluster configuration of the
\* channel has never been initialised
LeaderOfChannelForRead(n) ==
    IF apiLeader[n] = 0 THEN [err |-> "ErrChannelClusterConfigNotFound", Id |-> 0]
    ELSE [err |-> "nil", Id |-> apiLeader[n]]

\* the answers of the read handlers: emptySyncMessageResp without a store
\* call (step 0), or what one read of the storage of the node returned (step 1)
ResponseEmpty(rq) == [rq EXCEPT !.pc = "ok", !.step = 0, !.leaderSeen = 0]
ResponseRead(rq, leader) == [rq EXCEPT !.pc = "ok", !.step = 1, !.leaderSeen = leader]

\* syncMessages that serves every request on the node that received it
syncMessages_route_local(rq, n, leaderInfo) == ResponseRead(rq, leaderInfo.Id)

\* syncMessages that answers an error when the configuration is not found
syncMessages_route_notFoundIsError(rq, n, leaderInfo) ==
    IF leaderInfo.err # "nil" THEN ResponseError(rq)
    ELSE IF ~leaderIsSelf(n, leaderInfo.Id)
    THEN ForwardWithBody([rq EXCEPT !.leaderSeen = leaderInfo.Id], leaderInfo.Id, rq.body)
    ELSE ResponseRead(rq, leaderInfo.Id)

\* the routing block of syncMessages (lines 705-723) and the load behind it
syncMessages_route(rq, n, leaderInfo) ==
    IF leaderInfo.err = "ErrChannelClusterConfigNotFound" THEN ResponseEmpty(rq)
    ELSE IF leaderInfo.err # "nil" THEN ResponseError(rq)
    ELSE IF ~leaderIsSelf(n, leaderInfo.Id)
    THEN ForwardWithBody([rq EXCEPT !.leaderSeen = leaderInfo.Id], leaderInfo.Id, rq.body)
    ELSE ResponseRead(rq, leaderInfo.Id)

syncMessages(r) ==
    LET rq == areq[r]
        n == rq.at
        b == BindJSON(rq.body)
        next == IF b.err THEN ResponseError(rq)
                ELSE syncMessages_route(rq, n, LeaderOfChannelForRead(n))
    IN /\ rq.ep = "/channel/messagesync"
       /\ rq.pc = "recv"
       /\ next.hops <= MaxHops
       /\ areq' = [areq EXCEPT ![r] = next]
       /\ doneSeq' = IF next.pc = "ok" THEN Append(doneSeq, r) ELSE doneSeq
       /\ UNCHANGED <<apiLeader, db, cache, notApi>>

\* c.Query("channel_id") of a GET request: empty when the parameter is missing
QueryChannelId(bodyBytes) == IF bodyBytes.tag = "json" THEN "g1" ELSE ""

getChannelMaxMessageSeq(r) ==
    LET rq == areq[r]
        next == IF QueryChannelId(rq.body) = "" THEN ResponseError(rq)
                ELSE ResponseRead(rq, 0)
    IN /\ rq.ep = "/channel/max_message_seq"
       /\ rq.pc = "recv"
       /\ areq' = [areq EXCEPT ![r] = next]
       /\ doneSeq' = IF next.pc = "ok" THEN Append(doneSeq, r) ELSE doneSeq
       /\ UNCHANGED <<apiLeader, db, cache, notApi>>

NextApi ==
    \/ \E n \in SeedPeers, l \in SeedPeers : apiLeaderChanged(n, l)
    \/ \E r \in ReqIds, ep \in Endpoints, n \in SeedPeers :
          \E bodyBytes \in Bodies(r) : clientRequest(r, ep, bodyBytes, n)
    \/ \E r \in ReqIds : channelCreateOrUpdate(r)
    \/ \E r \in ReqIds : updateOrAddChannelInfo(r)
    \/ \E r \in ReqIds : channelDelete(r)
    \/ \E r \in ReqIds : addSubscriber(r)
    \/ \E r \in ReqIds : removeSubscriber(r)
    \/ \E r \in ReqIds : blacklistAdd(r)
    \/ \E r \in ReqIds : blacklistSet(r)
    \/ \E r \in ReqIds : blacklistRemove(r)
    \/ \E r \in ReqIds : whitelistAdd(r)
    \/ \E r \in ReqIds : whitelistSet(r)
    \/ \E r \in ReqIds : whitelistRemove(r)
    \/ \E r \in ReqIds : syncMessages(r)
    \/ \E r \in ReqIds : getChannelMaxMessageSeq(r)

(***************************************************************************)
(* SUBSCRIBERS: Server.addSubscriberWithReq (api_channel.go), called in    *)
(* sequence on one channel.                                                *)
(***************************************************************************)
\* the uids a request list carries: two uids, the empty string and a string
\* of white space
SubscriberUids == {"u1", "u2", "", " "}

\* strings.TrimSpace on the uids of the model
TrimSpace(str) == IF str = " " THEN "" ELSE str

\* util.ArrayContains
ArrayContains(items, target) == \E i \in 1..Len(items) : items[i] = target

\* a Go slice of the members of a set (the order is not modelled; the
\* handler only tests membership)
RECURSIVE SliceOf(_)
SliceOf(S) == IF S = {} THEN <<>>
              ELSE LET x == CHOOSE y \in S : TRUE IN <<x>> \o SliceOf(S \ {x})

\* the store's subscriber calls, with the set semantics of spec 4.D
GetSubscribers == SliceOf(subscribers)
RemoveAllSubscriber(S) == {}
AddSubscribers(S, uids) == S \cup {uids[i] : i \in 1..Len(uids)}

\* the filter loop of addSubscriberWithReq with the membership test dropped
newSubscribers_noFilter(exist, list) ==
    SelectSeq(list, LAMBDA subscriber : TrimSpace(subscriber) # "")

\* the filter loop of addSubscriberWithReq: the non-blank uids of the request
\* that the list read from the store does not contain, in request order
newSubscribers(exist, list) ==
    SelectSeq(list, LAMBDA subscriber :
        /\ TrimSpace(subscriber) # ""
        /\ ~ArrayContains(exist, subscriber))

\* the request lists of at most MaxSubscribers uids
SubscriberLists == UNION {[1..k -> SubscriberUids] : k \in 0..MaxSubscribers}

InitSubs ==
    /\ subscribers = {}
    /\ existSubscribers = <<>>
    /\ addReq = [Subscribers |-> <<>>, Reset |-> 0]
    /\ addCalls = <<>>
    /\ removeAllCalls = 0

\* Server.addSubscriberWithReq
addSubscriberWithReq(list, reset) ==
    LET exist == IF reset = 1 THEN <<>> ELSE GetSubscribers
        afterReset == IF reset = 1 THEN RemoveAllSubscriber(subscribers) ELSE subscribers
        new == newSubscribers(exist, list)
    IN  /\ addReq' = [Subscribers |-> list, Reset |-> reset]
        /\ existSubscribers' = exist
        /\ removeAllCalls' = IF reset = 1 THEN 1 ELSE 0
        /\ IF Len(new) > 0
           THEN /\ subscribers' = AddSubscribers(afterReset, new)
                /\ addCalls' = <<new>>
           ELSE /\ subscribers' = afterReset
                /\ addCalls' = <<>>
        /\ UNCHANGED notSubs

NextSubs ==
    \E list \in SubscriberLists, reset \in {0, 1} : addSubscriberWithReq(list, reset)

(***************************************************************************)
(* MESSAGE SYNC: the part of ChannelAPI.syncMessages (api_channel.go) that *)
(* a node serving the request itself runs: the limit clamp, the store      *)
(* load, and the more flag.  A message is modelled by its messageSeq.      *)
(***************************************************************************)
PullModeDown == 0
PullModeUp == 1
\* the largest limit syncMessages passes to the store
MaxSyncLimit == 10000

\* the values of the request fields the model draws from
SyncSeqs == {0, 3, 7, MaxSeq}
SyncLimits == {-1, 0, 2, 10, MaxSyncLimit + 1}
PullModes == {PullModeDown, PullModeUp}

\* the first k elements of a sequence (all of it when it is shorter)
Take(q, k) == SubSeq(q, 1, IF k < Len(q) THEN (IF k < 0 THEN 0 ELSE k) ELSE Len(q))

\* the seqs lo..hi in ascending and in descending order
Ascending(lo, hi) == [i \in 1..(IF hi < lo THEN 0 ELSE hi - lo + 1) |-> lo + i - 1]
Descending(hi, lo) == [i \in 1..(IF hi < lo THEN 0 ELSE hi - lo + 1) |-> hi - i + 1]

\* Storage.LoadLastMsgs: the most recent up to limit messages, newest last
LoadLastMsgs(n, limit) ==
    LET k == IF limit < 0 THEN 0 ELSE IF limit > n THEN n ELSE limit
    IN  Ascending(n - k + 1, n)

\* Storage.LoadNextRangeMsgs: the ascending range from startSeq (included)
\* to endSeq (excluded; 0: no end), at most limit messages
LoadNextRangeMsgs(n, startSeq, endSeq, limit) ==
    LET lo == IF startSeq < 1 THEN 1 ELSE startSeq
        hi == IF endSeq = 0 \/ endSeq > n THEN n ELSE endSeq - 1
    IN  Take(Ascending(lo, hi), limit)

\* Storage.LoadPrevRangeMsgs: the descending range from endSeq (included;
\* 0: the newest message) down to startSeq (excluded), at most limit messages
LoadPrevRangeMsgs(n, startSeq, endSeq, limit) ==
    LET hi == IF endSeq = 0 \/ endSeq > n THEN n ELSE endSeq
        lo == startSeq + 1
    IN  Take(Descending(hi, lo), limit)

\* the clamp of the requested limit
clampLimit(limit) == IF limit > MaxSyncLimit THEN MaxSyncLimit ELSE limit

\* the store call with the pull modes exchanged
loadFn_swapped(startSeq, endSeq, pullMode) ==
    IF startSeq = 0 /\ endSeq = 0 THEN "LoadLastMsgs"
    ELSE IF pullMode = PullModeUp THEN "LoadPrevRangeMsgs"
    ELSE "LoadNextRangeMsgs"

\* which store call syncMessages makes
loadFn(startSeq, endSeq, pullMode) ==
    IF startSeq = 0 /\ endSeq = 0 THEN "LoadLastMsgs"
    ELSE IF pullMode = PullModeUp THEN "LoadNextRangeMsgs"
    ELSE "LoadPrevRangeMsgs"

\* what the store call returns on a channel holding seqs 1..n
loadMsgs(fn, n, startSeq, endSeq, limit) ==
    IF fn = "LoadLastMsgs" THEN LoadLastMsgs(n, limit)
    ELSE IF fn = "LoadNextRangeMsgs" THEN LoadNextRangeMsgs(n, startSeq, endSeq, limit)
    ELSE LoadPrevRangeMsgs(n, startSeq, endSeq, limit)

\* the more flag without the test of the size of the answer
moreOf_noSizeTest(messageResps, limit, endSeq, pullMode) ==
    IF Len(messageResps) > 0
    THEN IF pullMode = PullModeDown
         THEN ~(endSeq # 0 /\ endSeq = messageResps[1])
         ELSE ~(endSeq # 0 /\ endSeq = messageResps[Len(messageResps)])
    ELSE TRUE

\* the more flag of syncMessages
moreOf(messageResps, limit, endSeq, pullMode) ==
    LET more1 == ~(Len(messageResps) < limit)
    IN  IF Len(messageResps) > 0
        THEN IF pullMode = PullModeDown
             THEN IF endSeq # 0 /\ endSeq = messageResps[1] THEN FALSE ELSE more1
             ELSE IF endSeq # 0 /\ endSeq = messageResps[Len(messageResps)]
                  THEN FALSE ELSE more1
        ELSE more1

NoSyncLoad == [fn |-> "none", startSeq |-> 0, endSeq |-> 0, limit |-> 0, lastSeq |-> 0]

InitSync ==
    /\ lastSeq = 0
    /\ syncReq = [StartMessageSeq |-> 0, EndMessageSeq |-> 0, Limit |-> 0,
                  PullMode |-> PullModeDown]
    /\ syncLoad = NoSyncLoad
    /\ syncResp = [StartMessageSeq |-> 0, EndMessageSeq |-> 0, More |-> FALSE,
                   Messages |-> <<>>]

\* a message is appended to the channel (the write path, between two syncs)
appendMessage ==
    /\ lastSeq < MaxSeq
    /\ lastSeq' = lastSeq + 1
    /\ UNCHANGED <<syncReq, syncLoad, syncResp>>
    /\ UNCHANGED notSync

\* ChannelAPI.syncMessages on the node that serves the request
syncMessages_serve(startSeq, endSeq, reqLimit, pullMode) ==
    LET limit == clampLimit(reqLimit)
        fn == loadFn(startSeq, endSeq, pullMode)
        messages == loadMsgs(fn, lastSeq, startSeq, endSeq, limit)
    IN  /\ syncReq' = [StartMessageSeq |-> startSeq, EndMessageSeq |-> endSeq,
                       Limit |-> reqLimit, PullMode |-> pullMode]
        /\ syncLoad' = [fn |-> fn, startSeq |-> startSeq, endSeq |-> endSeq,
                        limit |-> limit, lastSeq |-> lastSeq]
        /\ syncResp' = [StartMessageSeq |-> startSeq, EndMessageSeq |-> endSeq,
                        More |-> moreOf(messages, limit, endSeq, pullMode),
                        Messages |-> messages]
        /\ UNCHANGED lastSeq
        /\ UNCHANGED notSync

NextSync ==
    \/ appendMessage
    \/ \E startSeq \in SyncSeqs, endSeq \in SyncSeqs, reqLimit \in SyncLimits,
          pullMode \in PullModes : syncMessages_serve(startSeq, endSeq, reqLimit, pullMode)

(***************************************************************************)
(* LIFECYCLE: Server.Start and Server.Stop (server.go) with Cluster.Stop   *)
(* (cluster.go), and the requests the server accepts meanwhile.            *)
(***************************************************************************)
\* the components Cluster.Stop stops, in the order of its calls
ClusterStop == <<"cluster.stopChan", "multiRaft", "clusterManager">>

\* the components Server.Stop stops, in the order of its calls
StopOrder(opts) ==
    <<"timingWheel">>
    \o (IF opts.ClusterOn THEN <<"peerInFlightQueue">> \o ClusterStop ELSE <<>>)
    \o <<"retryQueue", "dispatch", "apiServer", "conversationManager", "webhook">>
    \o (IF opts.MonitorOn THEN <<"monitorServer", "monitor">> ELSE <<>>)
    \o (IF opts.DemoOn THEN <<"demoServer">> ELSE <<>>)
    \o <<"store">>

\* the components Server.Start starts
Started(opts) == {StopOrder(opts)[i] : i \in 1..Len(StopOrder(opts))}

\* the kinds of requests, and the component that accepts each
WorkKinds == {"client", "api"}
Acceptor(k) == IF k = "client" THEN "dispatch" ELSE "apiServer"

InitLife ==
    /\ srvOpts = [ClusterOn |-> FALSE, MonitorOn |-> FALSE, DemoOn |-> FALSE]
    /\ srvPc = "new"
    /\ stopIdx = 0
    /\ running = {}
    /\ work = [k \in WorkKinds |-> "none"]

\* Server.Start
Server_Start(clusterOn, monitorOn, demoOn) ==
    LET opts == [ClusterOn |-> clusterOn, MonitorOn |-> monitorOn, DemoOn |-> demoOn]
    IN  /\ srvPc = "new"
        /\ srvOpts' = opts
        /\ srvPc' = "started"
        /\ running' = Started(opts)
        /\ UNCHANGED <<stopIdx, work>>
        /\ UNCHANGED notLife

\* Server.Stop is called: s.started = false
Server_Stop ==
    /\ srvPc = "started"
    /\ srvPc' = "stopping"
    /\ UNCHANGED <<srvOpts, stopIdx, running, work>>
    /\ UNCHANGED notLife

\* the next call of Server.Stop returns; after store.Close the server exits
Server_Stop_next ==
    /\ srvPc = "stopping"
    /\ stopIdx' = stopIdx + 1
    /\ running' = running \ {StopOrder(srvOpts)[stopIdx + 1]}
    /\ srvPc' = IF stopIdx + 1 = Len(StopOrder(srvOpts)) THEN "exited" ELSE "stopping"
    /\ UNCHANGED <<srvOpts, work>>
    /\ UNCHANGED notLife

\* the dispatcher or the API server accepts a request
accept(k) ==
    /\ Acceptor(k) \in running
    /\ work[k] \in {"none", "done", "failed"}
    /\ work' = [work EXCEPT ![k] = "accepted"]
    /\ UNCHANGED <<srvOpts, srvPc, stopIdx, running>>
    /\ UNCHANGED notLife

\* the handler of an accepted request proposes to the slot group (cluster
\* mode) and fails when the raft groups are stopped
propose(k) ==
    /\ work[k] = "accepted"
    /\ srvOpts.ClusterOn
    /\ work' = [work EXCEPT ![k] = IF "multiRaft" \in running THEN "proposed" ELSE "failed"]
    /\ UNCHANGED <<srvOpts, srvPc, stopIdx, running>>
    /\ UNCHANGED notLife

\* the request reaches the storage and fails when the storage is closed
storeCall(k) ==
    /\ \/ work[k] = "proposed"
       \/ work[k] = "accepted" /\ ~srvOpts.ClusterOn
    /\ work' = [work EXCEPT ![k] = IF "store" \in running THEN "done" ELSE "failed"]
    /\ UNCHANGED <<srvOpts, srvPc, stopIdx, running>>
    /\ UNCHANGED notLife

NextLife ==
    \/ \E clusterOn \in BOOLEAN, monitorOn \in BOOLEAN, demoOn \in BOOLEAN :
          Server_Start(clusterOn, monitorOn, demoOn)
    \/ Server_Stop
    \/ Server_Stop_next
    \/ \E k \in WorkKinds : accept(k)
    \/ \E k \in WorkKinds : propose(k)
    \/ \E k \in WorkKinds : storeCall(k)

(***************************************************************************)
(* Specifications.                                                         *)
(***************************************************************************)
(* IP BLACKLIST: Server.AllowIP, AddIPBlacklist, initIPBlacklist and       *)
(* RemoveIPBlacklist over the map ipBlacklist and its lock, called by      *)
(* concurrent goroutines. A call is followed statement by statement.       *)
(***************************************************************************)
IpThreads == 1..MaxIpThreads
IPs == {"ip1", "ip2"}
\* the ip slices of the calls
IpLists == {<<>>, <<"ip1">>, <<"ip2">>, <<"ip1", "ip2">>}

\* the map with ip set to count
MapSet(m, ip, count) ==
    [x \in (DOMAIN m) \cup {ip} |-> IF x = ip THEN count ELSE m[x]]
\* delete(m, ip)
MapDelete(m, ip) == [x \in (DOMAIN m) \ {ip} |-> m[x]]
\* blockCount, ok := m[ip]: the zero value when ip is not a key
MapGet(m, ip) == IF ip \in DOMAIN m THEN [blockCount |-> m[ip], ok |-> TRUE]
                 ELSE [blockCount |-> 0, ok |-> FALSE]

IdleIpThr == [op |-> "none", pc |-> "idle", ip |-> "", ips |-> <<>>, blockCount |-> 0,
              ok |-> FALSE, ret |-> FALSE, before |-> <<>>, after |-> <<>>,
              listed |-> FALSE]

InitIp ==
    /\ ipBlacklist = <<>>
    /\ ipLock = 0
    /\ ipThr = [t \in IpThreads |-> IdleIpThr]
    /\ denied = [ip \in IPs |-> 0]

\* ipBlacklistLock.Lock() that does not wait for the holder
ipBlacklistLock_Lock_noWait(t) == ipLock' = t

\* ipBlacklistLock.Lock(): t waits until no goroutine holds the lock
ipBlacklistLock_Lock(t) == ipLock = 0 /\ ipLock' = t

\* the deferred ipBlacklistLock.Unlock()
ipBlacklistLock_Unlock(t) == ipLock' = 0

\* AllowIP, lines 311-313: takes the lock and reads the entry of ip
AllowIP(t, ip) ==
    /\ ipThr[t].pc = "idle"
    /\ denied[ip] < MaxBlockCount
    /\ ipBlacklistLock_Lock(t)
    /\ ipThr' = [ipThr EXCEPT ![t] =
                    [IdleIpThr EXCEPT !.op = "AllowIP", !.pc = "read", !.ip = ip,
                                      !.blockCount = MapGet(ipBlacklist, ip).blockCount,
                                      !.ok = MapGet(ipBlacklist, ip).ok,
                                      !.before = ipBlacklist]]
    /\ UNCHANGED <<ipBlacklist, denied, notIp>>

\* AllowIP, lines 314-318: counts the denied call and returns false when the
\* entry was found, returns true otherwise; the lock is released on return
AllowIP_return(t) ==
    LET c == ipThr[t] IN
    /\ c.pc = "read"
    /\ ipBlacklist' = IF c.ok THEN MapSet(ipBlacklist, c.ip, c.blockCount + 1)
                      ELSE ipBlacklist
    /\ denied' = IF c.ok THEN [denied EXCEPT ![c.ip] = @ + 1] ELSE denied
    /\ ipBlacklistLock_Unlock(t)
    /\ ipThr' = [ipThr EXCEPT ![t].pc = "idle", ![t].ret = ~c.ok,
                              ![t].listed = c.ip \in DOMAIN ipBlacklist,
                              ![t].after = ipBlacklist']
    /\ UNCHANGED notIp

\* AddIPBlacklist, lines 322-323: takes the lock
AddIPBlacklist(t, ips) ==
    /\ ipThr[t].pc = "idle"
    /\ ipBlacklistLock_Lock(t)
    /\ ipThr' = [ipThr EXCEPT ![t] = [IdleIpThr EXCEPT !.op = "AddIPBlacklist",
                                                       !.pc = "range", !.ips = ips]]
    /\ UNCHANGED <<ipBlacklist, denied, notIp>>

\* AddIPBlacklist, lines 324-326: one iteration of the loop
AddIPBlacklist_range(t) ==
    LET c == ipThr[t] IN
    /\ c.op = "AddIPBlacklist" /\ c.pc = "range" /\ c.ips # <<>>
    /\ ipBlacklist' = MapSet(ipBlacklist, Head(c.ips), 0)
    /\ denied' = [denied EXCEPT ![Head(c.ips)] = 0]
    /\ ipThr' = [ipThr EXCEPT ![t].ips = Tail(c.ips)]
    /\ UNCHANGED <<ipLock, notIp>>

\* AddIPBlacklist returns: the lock is released
AddIPBlacklist_return(t) ==
    LET c == ipThr[t] IN
    /\ c.op = "AddIPBlacklist" /\ c.pc = "range" /\ c.ips = <<>>
    /\ ipBlacklistLock_Unlock(t)
    /\ ipThr' = [ipThr EXCEPT ![t].pc = "idle"]
    /\ UNCHANGED <<ipBlacklist, denied, notIp>>

\* initIPBlacklist, lines 331-337: store.GetIPBlacklist returns ips or fails; on
\* failure the function returns without taking the lock
initIPBlacklist(t, ips, err) ==
    /\ ipThr[t].pc = "idle"
    /\ IF err
       THEN /\ ipThr[t].op # "initIPBlacklist"
            /\ ipThr' = [ipThr EXCEPT ![t] = [IdleIpThr EXCEPT !.op = "initIPBlacklist"]]
            /\ UNCHANGED ipLock
       ELSE /\ ipBlacklistLock_Lock(t)
            /\ ipThr' = [ipThr EXCEPT ![t] = [IdleIpThr EXCEPT !.op = "initIPBlacklist",
                                                               !.pc = "range",
                                                               !.ips = ips]]
    /\ UNCHANGED <<ipBlacklist, denied, notIp>>

\* initIPBlacklist, lines 338-340: one iteration of the loop
initIPBlacklist_range(t) ==
    LET c == ipThr[t] IN
    /\ c.op = "initIPBlacklist" /\ c.pc = "range" /\ c.ips # <<>>
    /\ ipBlacklist' = MapSet(ipBlacklist, Head(c.ips), 0)
    /\ denied' = [denied EXCEPT ![Head(c.ips)] = 0]
    /\ ipThr' = [ipThr EXCEPT ![t].ips = Tail(c.ips)]
    /\ UNCHANGED <<ipLock, notIp>>

\* initIPBlacklist returns: the lock is released
initIPBlacklist_return(t) ==
    LET c == ipThr[t] IN
    /\ c.op = "initIPBlacklist" /\ c.pc = "range" /\ c.ips = <<>>
    /\ ipBlacklistLock_Unlock(t)
    /\ ipThr' = [ipThr EXCEPT ![t].pc = "idle"]
    /\ UNCHANGED <<ipBlacklist, denied, notIp>>

\* RemoveIPBlacklist, lines 344-345: takes the lock
RemoveIPBlacklist(t, ips) ==
    /\ ipThr[t].pc = "idle"
    /\ ipBlacklistLock_Lock(t)
    /\ ipThr' = [ipThr EXCEPT ![t] = [IdleIpThr EXCEPT !.op = "RemoveIPBlacklist",
                                                       !.pc = "range", !.ips = ips]]
    /\ UNCHANGED <<ipBlacklist, denied, notIp>>

\* RemoveIPBlacklist, lines 346-348: one iteration of the loop
RemoveIPBlacklist_range(t) ==
    LET c == ipThr[t] IN
    /\ c.op = "RemoveIPBlacklist" /\ c.pc = "range" /\ c.ips # <<>>
    /\ ipBlacklist' = MapDelete(ipBlacklist, Head(c.ips))
    /\ denied' = [denied EXCEPT ![Head(c.ips)] = 0]
    /\ ipThr' = [ipThr EXCEPT ![t].ips = Tail(c.ips)]
    /\ UNCHANGED <<ipLock, notIp>>

\* RemoveIPBlacklist returns: the lock is released
RemoveIPBlacklist_return(t) ==
    LET c == ipThr[t] IN
    /\ c.op = "RemoveIPBlacklist" /\ c.pc = "range" /\ c.ips = <<>>
    /\ ipBlacklistLock_Unlock(t)
    /\ ipThr' = [ipThr EXCEPT ![t].pc = "idle"]
    /\ UNCHANGED <<ipBlacklist, denied, notIp>>

NextIp ==
    \/ \E t \in IpThreads, ip \in IPs : AllowIP(t, ip)
    \/ \E t \in IpThreads : AllowIP_return(t)
    \/ \E t \in IpThreads, ips \in IpLists : AddIPBlacklist(t, ips)
    \/ \E t \in IpThreads : AddIPBlacklist_range(t)
    \/ \E t \in IpThreads : AddIPBlacklist_return(t)
    \/ \E t \in IpThreads, ips \in IpLists, err \in BOOLEAN : initIPBlacklist(t, ips, err)
    \/ \E t \in IpThreads : initIPBlacklist_range(t)
    \/ \E t \in IpThreads : initIPBlacklist_return(t)
    \/ \E t \in IpThreads, ips \in IpLists : RemoveIPBlacklist(t, ips)
    \/ \E t \in IpThreads : RemoveIPBlacklist_range(t)
    \/ \E t \in IpThreads : RemoveIPBlacklist_return(t)

(***************************************************************************)
(* CHANNEL HANDLERS, STATEMENT BY STATEMENT: the channel, subscriber and   *)
(* list handlers of api_channel.go on one node in cluster mode, from the   *)
(* checks of the request through the routing block to each store call and *)
(* the update of the cached channel, for concurrent requests on one        *)
(* channel.                                                                *)
(***************************************************************************)
\* wkproto.ChannelTypePerson, wkproto.ChannelTypeGroup
ChannelTypePerson == 1
ChannelTypeGroup == 2

ChReqIds == 1..MaxChReqs
\* the two requests that run concurrently on one channel
ChPair == {1, 2}

\* the handlers of the channel and of its subscribers
ChannelEndpoints == {"/channel", "/channel/info", "/channel/delete",
                     "/channel/subscriber_add", "/channel/subscriber_remove"}
\* the handlers of the denylist and the allowlist
ListEndpoints == {"/channel/blacklist_add", "/channel/blacklist_set",
                  "/channel/blacklist_remove", "/channel/whitelist_add",
                  "/channel/whitelist_set", "/channel/whitelist_remove"}
HandlerEndpoints == ChannelEndpoints \cup ListEndpoints

\* what SlotLeaderOfChannel returns on the node: an error, another node, the node
LeaderInfos == {"err", "other", "self"}

\* req.ToChannelInfo() of the request r sends, and wkdb.NewChannelInfo
ToChannelInfo(r) == IF r = 1 THEN "info1" ELSE "info2"
NewChannelInfo == "default"

\* bytes that BindJSON cannot read
ChGarbage == [json |-> FALSE, channelID |-> "", channelType |-> 0, temp |-> 0,
              reset |-> 0, uids |-> <<>>, info |-> "none"]

\* the bodies request r can carry
AnyBodies(r) ==
    {ChGarbage} \cup
    [json : {TRUE}, channelID : {"", "g1"},
     channelType : {0, ChannelTypePerson, ChannelTypeGroup}, temp : {0, 1},
     reset : {0, 1}, uids : {<<>>, <<IF r = 1 THEN "u1" ELSE "u2">>},
     info : {ToChannelInfo(r)}]

\* the bodies of requests on the group channel g1 that pass every check
GroupBodies(r) ==
    {b \in AnyBodies(r) : /\ b.json
                          /\ b.channelID = "g1"
                          /\ b.channelType = ChannelTypeGroup
                          /\ b.temp = 0}

\* req.Check(): refuses a request without channel id (spec 7, permanent input)
req_Check(b) == b.channelID # ""

\* the checks of a handler before its routing block that only test the binding
Rejects_bindOnly(ep, b) == ~b.json

\* the checks of a handler before its routing block: whether the request is
\* answered with an error there
Rejects(ep, b) ==
    \/ ~b.json
    \/ /\ ep \in {"/channel", "/channel/subscriber_add", "/channel/subscriber_remove",
                  "/channel/blacklist_add", "/channel/blacklist_remove",
                  "/channel/whitelist_add", "/channel/whitelist_remove"}
       /\ ~req_Check(b)
    \/ /\ ep \in {"/channel/blacklist_set", "/channel/whitelist_set"}
       /\ TrimSpace(b.channelID) = ""
    \/ /\ ep \in {"/channel", "/channel/subscriber_add", "/channel/subscriber_remove",
                  "/channel/delete"}
       /\ b.channelType = ChannelTypePerson
    \/ /\ ep = "/channel/subscriber_add"
       /\ b.temp = 1
    \/ /\ ep \in {"/channel/blacklist_add", "/channel/whitelist_add"}
       /\ Len(b.uids) = 0

\* the first statement of a handler after its routing block
FirstStmt(ep) ==
    CASE ep = "/channel" -> "AddOrUpdateChannel"
      [] ep = "/channel/info" -> "AddOrUpdateChannel"
      [] ep = "/channel/delete" -> "DeleteChannelAndClearMessages"
      [] ep = "/channel/subscriber_add" -> "ExistChannel"
      [] ep = "/channel/subscriber_remove" -> "RemoveSubscribers"
      [] ep = "/channel/blacklist_add" -> "AddDenylist"
      [] ep = "/channel/blacklist_set" -> "RemoveAllDenylist"
      [] ep = "/channel/blacklist_remove" -> "RemoveDenylist"
      [] ep = "/channel/whitelist_add" -> "AddAllowlist"
      [] ep = "/channel/whitelist_set" -> "RemoveAllAllowlist"
      [] ep = "/channel/whitelist_remove" -> "RemoveAllowlist"

\* the first statement of addSubscriberWithReq, lines 235-247
addSubscriberWithReq_first(q) ==
    IF q.body.reset = 1 THEN "RemoveAllSubscriber" ELSE "GetSubscribers"

\* the statement of a handler that follows stmt, given the request q with what
\* the handler has read so far; "ok" is c.ResponseOK()
NextStmt(ep, stmt, q) ==
    CASE ep = "/channel" /\ stmt = "AddOrUpdateChannel" -> "RemoveAllSubscriber"
      [] ep = "/channel" /\ stmt = "RemoveAllSubscriber" ->
            IF Len(q.body.uids) > 0 THEN "AddSubscribers" ELSE "cacheInfo"
      [] ep = "/channel" /\ stmt = "AddSubscribers" -> "cacheInfo"
      [] ep = "/channel/info" /\ stmt = "AddOrUpdateChannel" -> "cacheInfo"
      [] ep = "/channel/subscriber_add" /\ stmt = "ExistChannel" ->
            IF q.exist THEN addSubscriberWithReq_first(q) ELSE "AddOrUpdateChannel_default"
      [] ep = "/channel/subscriber_add" /\ stmt = "AddOrUpdateChannel_default" ->
            addSubscriberWithReq_first(q)
      [] ep = "/channel/subscriber_add" /\ stmt \in {"RemoveAllSubscriber", "GetSubscribers"} ->
            IF Len(newSubscribers(q.existSubscribers, q.body.uids)) > 0
            THEN "AddSubscribers" ELSE "makeReceiverTag"
      [] ep = "/channel/subscriber_add" /\ stmt = "AddSubscribers" -> "makeReceiverTag"
      [] ep = "/channel/subscriber_remove" /\ stmt = "RemoveSubscribers" -> "makeReceiverTag"
      [] ep = "/channel/blacklist_set" /\ stmt = "RemoveAllDenylist" ->
            IF Len(q.body.uids) > 0 THEN "AddDenylist" ELSE "ok"
      [] ep = "/channel/whitelist_set" /\ stmt = "RemoveAllAllowlist" ->
            IF Len(q.body.uids) > 0 THEN "AddAllowlist" ELSE "ok"
      [] OTHER -> "ok"

\* the statements that are calls of the store
StoreStmts == {"AddOrUpdateChannel", "AddOrUpdateChannel_default", "ExistChannel",
               "DeleteChannelAndClearMessages", "RemoveAllSubscriber", "GetSubscribers",
               "AddSubscribers", "RemoveSubscribers", "AddDenylist", "RemoveAllDenylist",
               "RemoveDenylist", "AddAllowlist", "RemoveAllAllowlist", "RemoveAllowlist"}

SetOf(uids) == {uids[i] : i \in 1..Len(uids)}

\* store.DeleteChannelAndClearMessages that refuses a channel it does not hold
DeleteChannelAndClearMessages_notFound(s) ==
    IF s.exist THEN [err |-> FALSE, s |-> [s EXCEPT !.exist = FALSE, !.info = "none"]]
    ELSE [err |-> TRUE, s |-> s]

\* store.DeleteChannelAndClearMessages: removes the channel; succeeds when the
\* channel is not there (spec 4.D and 8: repeating the delete returns success)
DeleteChannelAndClearMessages(s) ==
    [err |-> FALSE, s |-> [s EXCEPT !.exist = FALSE, !.info = "none"]]

\* the store after the call stmt of request q, and the error the call returns
StoreExec(stmt, q, s) ==
    CASE stmt = "AddOrUpdateChannel" ->
            [err |-> FALSE, s |-> [s EXCEPT !.exist = TRUE, !.info = q.body.info]]
      [] stmt = "AddOrUpdateChannel_default" ->
            [err |-> FALSE, s |-> [s EXCEPT !.exist = TRUE, !.info = NewChannelInfo]]
      [] stmt = "DeleteChannelAndClearMessages" -> DeleteChannelAndClearMessages(s)
      [] stmt = "RemoveAllSubscriber" ->
            [err |-> FALSE, s |-> [s EXCEPT !.subscribers = RemoveAllSubscriber(@)]]
      [] stmt = "AddSubscribers" ->
            [err |-> FALSE,
             s |-> [s EXCEPT !.subscribers =
                      AddSubscribers(@, IF q.ep = "/channel" THEN q.body.uids
                                        ELSE newSubscribers(q.existSubscribers, q.body.uids))]]
      [] stmt = "RemoveSubscribers" ->
            [err |-> FALSE, s |-> [s EXCEPT !.subscribers = @ \ SetOf(q.body.uids)]]
      [] stmt = "AddDenylist" ->
            [err |-> FALSE, s |-> [s EXCEPT !.denylist = @ \cup SetOf(q.body.uids)]]
      [] stmt = "RemoveAllDenylist" -> [err |-> FALSE, s |-> [s EXCEPT !.denylist = {}]]
      [] stmt = "RemoveDenylist" ->
            [err |-> FALSE, s |-> [s EXCEPT !.denylist = @ \ SetOf(q.body.uids)]]
      [] stmt = "AddAllowlist" ->
            [err |-> FALSE, s |-> [s EXCEPT !.allowlist = @ \cup SetOf(q.body.uids)]]
      [] stmt = "RemoveAllAllowlist" -> [err |-> FALSE, s |-> [s EXCEPT !.allowlist = {}]]
      [] stmt = "RemoveAllowlist" ->
            [err |-> FALSE, s |-> [s EXCEPT !.allowlist = @ \ SetOf(q.body.uids)]]
      [] OTHER -> [err |-> FALSE, s |-> s]

\* the request after statement stmt: what the handler read into its variables
ReadExec(stmt, q, s) ==
    CASE stmt = "ExistChannel" -> [q EXCEPT !.exist = s.exist]
      [] stmt = "GetSubscribers" -> [q EXCEPT !.existSubscribers = SliceOf(s.subscribers)]
      [] OTHER -> q

\* channel.makeReceiverTag: the tag is computed from the subscribers in the store
makeReceiverTag(c, s) == [c EXCEPT !.tag = s.subscribers]

\* the cached channel after statement stmt: lines 119-123 and 158-162 set the
\* info of a cached channel, lines 264-273 and 314-324 make its receiver tag
CacheExec(stmt, q, c, s) ==
    CASE stmt = "cacheInfo" /\ c.cached -> [c EXCEPT !.info = q.body.info]
      [] stmt = "makeReceiverTag" /\ c.cached -> makeReceiverTag(c, s)
      [] OTHER -> c

\* what a request finds when its handler starts: the info and the subscribers
\* of the channel in the store, and the requests that have been answered
NoBefore == [info |-> "none", subscribers |-> {}, answered |-> {}]
Answered == {"error", "forwarded", "ok"}

IdleChReq == [pc |-> "idle", ep |-> "none", body |-> ChGarbage, exist |-> FALSE,
              existSubscribers |-> <<>>, lookups |-> 0, forwards |-> 0, storeCalls |-> 0,
              storeErr |-> FALSE, before |-> NoBefore]

InitChan ==
    /\ chStore = [exist |-> FALSE, info |-> "none", subscribers |-> {}, denylist |-> {},
                  allowlist |-> {}]
    /\ chCache = [cached |-> FALSE, info |-> "none", tag |-> {}]
    /\ chReq = [r \in ChReqIds |-> IdleChReq]

\* a client sends a request to the node
chRequest(r, ep, body) ==
    /\ chReq[r].pc = "idle"
    /\ chReq' = [chReq EXCEPT ![r] = [IdleChReq EXCEPT !.pc = "recv", !.ep = ep,
                                                       !.body = body]]
    /\ UNCHANGED <<chStore, chCache, notChan>>

\* the channel reactor of the node loads the channel with its receiver tag
cacheChannel ==
    /\ ~chCache.cached
    /\ chCache' = makeReceiverTag([cached |-> TRUE, info |-> chStore.info, tag |-> {}],
                                  chStore)
    /\ UNCHANGED <<chStore, chReq, notChan>>

\* the head of a handler: BindJSON and the checks, then the routing block
chRoute(r, leaderInfo) ==
    LET q == [chReq[r] EXCEPT !.before =
                 [info |-> chStore.info, subscribers |-> chStore.subscribers,
                  answered |-> {o \in ChReqIds : chReq[o].pc \in Answered}]] IN
    /\ q.pc = "recv"
    /\ chReq' = [chReq EXCEPT ![r] =
          IF Rejects(q.ep, q.body) THEN [q EXCEPT !.pc = "error"]
          ELSE IF leaderInfo = "err" THEN [q EXCEPT !.pc = "error", !.lookups = @ + 1]
          ELSE IF leaderInfo = "other"
          THEN [q EXCEPT !.pc = "forwarded", !.lookups = @ + 1, !.forwards = @ + 1]
          ELSE [q EXCEPT !.pc = FirstStmt(q.ep), !.lookups = @ + 1]]
    /\ UNCHANGED <<chStore, chCache, notChan>>

\* one statement of a handler behind its routing block; fails: the store call
\* (or makeReceiverTag on a cached channel) fails for a reason of the storage
chStmt(r, fails) ==
    LET q == chReq[r]
        stmt == q.pc
        res == StoreExec(stmt, q, chStore)
        canFail == stmt \in StoreStmts \/ (stmt = "makeReceiverTag" /\ chCache.cached)
        called == [q EXCEPT !.storeCalls = IF stmt \in StoreStmts THEN @ + 1 ELSE @]
        read == ReadExec(stmt, called, chStore)
    IN /\ q.pc \notin {"idle", "recv", "error", "forwarded", "ok"}
       /\ fails => canFail
       /\ IF fails \/ res.err
          THEN /\ chReq' = [chReq EXCEPT ![r] = [called EXCEPT !.pc = "error",
                                                              !.storeErr = fails]]
               /\ UNCHANGED <<chStore, chCache>>
          ELSE /\ chStore' = res.s
               /\ chCache' = CacheExec(stmt, q, chCache, res.s)
               /\ chReq' = [chReq EXCEPT ![r] = [read EXCEPT !.pc = NextStmt(q.ep, stmt, read)]]
       /\ UNCHANGED notChan

\* a step of the handler of request r
chHandler(r, leaderInfo, fails) == chRoute(r, leaderInfo) \/ chStmt(r, fails)

channelCreateOrUpdate_stmt(r, leaderInfo, fails) ==
    /\ chReq[r].ep = "/channel"
    /\ chHandler(r, leaderInfo, fails)

updateOrAddChannelInfo_stmt(r, leaderInfo, fails) ==
    /\ chReq[r].ep = "/channel/info"
    /\ chHandler(r, leaderInfo, fails)

channelDelete_stmt(r, leaderInfo, fails) ==
    /\ chReq[r].ep = "/channel/delete"
    /\ chHandler(r, leaderInfo, fails)

addSubscriber_stmt(r, leaderInfo, fails) ==
    /\ chReq[r].ep = "/channel/subscriber_add"
    /\ chHandler(r, leaderInfo, fails)

removeSubscriber_stmt(r, leaderInfo, fails) ==
    /\ chReq[r].ep = "/channel/subscriber_remove"
    /\ chHandler(r, leaderInfo, fails)

blacklistAdd_stmt(r, leaderInfo, fails) ==
    /\ chReq[r].ep = "/channel/blacklist_add"
    /\ chHandler(r, leaderInfo, fails)

blacklistSet_stmt(r, leaderInfo, fails) ==
    /\ chReq[r].ep = "/channel/blacklist_set"
    /\ chHandler(r, leaderInfo, fails)

blacklistRemove_stmt(r, leaderInfo, fails) ==
    /\ chReq[r].ep = "/channel/blacklist_remove"
    /\ chHandler(r, leaderInfo, fails)

whitelistAdd_stmt(r, leaderInfo, fails) ==
    /\ chReq[r].ep = "/channel/whitelist_add"
    /\ chHandler(r, leaderInfo, fails)

whitelistSet_stmt(r, leaderInfo, fails) ==
    /\ chReq[r].ep = "/channel/whitelist_set"
    /\ chHandler(r, leaderInfo, fails)

whitelistRemove_stmt(r, leaderInfo, fails) ==
    /\ chReq[r].ep = "/channel/whitelist_remove"
    /\ chHandler(r, leaderInfo, fails)

\* concurrent requests on the group channel, on the node that is the slot leader
NextChan ==
    \/ \E r \in ChPair, ep \in ChannelEndpoints :
          \E body \in GroupBodies(r) : chRequest(r, ep, body)
    \/ cacheChannel
    \/ \E r \in ChPair, fails \in BOOLEAN : channelCreateOrUpdate_stmt(r, "self", fails)
    \/ \E r \in ChPair, fails \in BOOLEAN : updateOrAddChannelInfo_stmt(r, "self", fails)
    \/ \E r \in ChPair, fails \in BOOLEAN : channelDelete_stmt(r, "self", fails)
    \/ \E r \in ChPair, fails \in BOOLEAN : addSubscriber_stmt(r, "self", fails)
    \/ \E r \in ChPair, fails \in BOOLEAN : removeSubscriber_stmt(r, "self", fails)

\* the bodies of the requests that create and delete the group channel
DeleteBodies(r) == {b \in GroupBodies(r) : b.reset = 0 /\ b.uids = <<>>}

\* requests that create and delete the group channel, on the slot leader
NextDelete ==
    \/ \E r \in ChReqIds, ep \in {"/channel", "/channel/delete"} :
          \E body \in DeleteBodies(r) : chRequest(r, ep, body)
    \/ cacheChannel
    \/ \E r \in ChReqIds, fails \in BOOLEAN : channelCreateOrUpdate_stmt(r, "self", fails)
    \/ \E r \in ChReqIds, fails \in BOOLEAN : channelDelete_stmt(r, "self", fails)

\* one request with any body to any handler, on a node with any leader information
NextValidate ==
    \/ \E ep \in HandlerEndpoints, body \in AnyBodies(1) : chRequest(1, ep, body)
    \/ \E l \in LeaderInfos, fails \in BOOLEAN : channelCreateOrUpdate_stmt(1, l, fails)
    \/ \E l \in LeaderInfos, fails \in BOOLEAN : updateOrAddChannelInfo_stmt(1, l, fails)
    \/ \E l \in LeaderInfos, fails \in BOOLEAN : channelDelete_stmt(1, l, fails)
    \/ \E l \in LeaderInfos, fails \in BOOLEAN : addSubscriber_stmt(1, l, fails)
    \/ \E l \in LeaderInfos, fails \in BOOLEAN : removeSubscriber_stmt(1, l, fails)
    \/ \E l \in LeaderInfos, fails \in BOOLEAN : blacklistAdd_stmt(1, l, fails)
    \/ \E l \in LeaderInfos, fails \in BOOLEAN : blacklistSet_stmt(1, l, fails)
    \/ \E l \in LeaderInfos, fails \in BOOLEAN : blacklistRemove_stmt(1, l, fails)
    \/ \E l \in LeaderInfos, fails \in BOOLEAN : whitelistAdd_stmt(1, l, fails)
    \/ \E l \in LeaderInfos, fails \in BOOLEAN : whitelistSet_stmt(1, l, fails)
    \/ \E l \in LeaderInfos, fails \in BOOLEAN : whitelistRemove_stmt(1, l, fails)

(***************************************************************************)
(* SLOT ROUTING: Cluster.getSlotID over the slot count of the cluster      *)
(* manager, on nodes constructed with their own options, before and after  *)
(* the cluster configuration of bootstrap is applied.                      *)
(***************************************************************************)
\* the values of opts.SlotCount a node is configured with
SlotCounts == {2, 3}

\* the strings hashed, as bytes: the key of the group channel g1 (the type
\* byte 2, then "g1"), and "a"
Keys == {<<2, 103, 49>>, <<97>>}

\* a xor b on the lowest n bits
RECURSIVE Xor(_, _, _)
Xor(a, b, n) ==
    IF n = 0 THEN 0
    ELSE ((a + b) % 2) + 2 * Xor(a \div 2, b \div 2, n - 1)

\* a 32-bit word is kept as its two 16-bit halves
Word(hi, lo) == [hi |-> hi, lo |-> lo]
\* FNV-1a 32-bit: the offset basis 0x811C9DC5, and one round, h = (h xor b) * prime
\* with prime 0x01000193 = 2^24 + 403, modulo 2^32
FnvOffset == Word(33052, 40389)
FnvRound(h, b) ==
    LET lo == (h.lo - (h.lo % 256)) + Xor(h.lo % 256, b, 8)
        m == lo * 403
    IN Word((h.hi * 403 + (m \div 65536) + (lo % 256) * 256) % 65536, m % 65536)

RECURSIVE Fnv1a(_, _)
Fnv1a(h, bytes) ==
    IF bytes = <<>> THEN h ELSE Fnv1a(FnvRound(h, Head(bytes)), Tail(bytes))

\* wkutil.GetSlotNum(slotCount, v): the hash of v modulo slotCount (spec 6: FNV-1a)
GetSlotNum(slotCount, v) ==
    LET h == Fnv1a(FnvOffset, v)
    IN (((h.hi % slotCount) * (65536 % slotCount)) + h.lo) % slotCount

NoRoute == [v |-> <<>>, slotCount |-> 0, slotID |-> 0]

InitRoute ==
    /\ rtOpts = [n \in SeedPeers |-> 0]
    /\ rtCommitted = 0
    /\ rtSlotCount = [n \in SeedPeers |-> 0]
    /\ rtApplied = [n \in SeedPeers |-> FALSE]
    /\ rtLast = [n \in SeedPeers |-> NoRoute]

\* cluster.New, lines 60-62: the cluster manager of the node is made with the
\* slot count of the options of the node
New(n, slotCount) ==
    /\ rtOpts[n] = 0
    /\ rtOpts' = [rtOpts EXCEPT ![n] = slotCount]
    /\ rtSlotCount' = [rtSlotCount EXCEPT ![n] = slotCount]
    /\ UNCHANGED <<rtCommitted, rtApplied, rtLast, notRoute>>

\* bootstrap, lines 174-178: the leader of the peer group commits the cluster
\* configuration with the slot count of its own options
bootstrap(n) ==
    /\ rtOpts[n] # 0
    /\ rtCommitted = 0
    /\ rtCommitted' = rtOpts[n]
    /\ UNCHANGED <<rtOpts, rtSlotCount, rtApplied, rtLast, notRoute>>

\* the apply thread of the peer group on n applies the committed configuration
applyClusterConfig(n) ==
    /\ rtOpts[n] # 0
    /\ rtCommitted # 0
    /\ ~rtApplied[n]
    /\ rtApplied' = [rtApplied EXCEPT ![n] = TRUE]
    /\ rtSlotCount' = [rtSlotCount EXCEPT ![n] = rtCommitted]
    /\ UNCHANGED <<rtOpts, rtCommitted, rtLast, notRoute>>

\* getSlotID, lines 409-411 (called by GetLeaderPeer, inPeer, GetOnePeer)
getSlotID(n, v) ==
    /\ rtOpts[n] # 0
    /\ rtLast[n].v # v
    /\ rtLast' = [rtLast EXCEPT ![n] = [v |-> v, slotCount |-> rtSlotCount[n],
                                      slotID |-> GetSlotNum(rtSlotCount[n], v)]]
    /\ UNCHANGED <<rtOpts, rtCommitted, rtSlotCount, rtApplied, notRoute>>

NextRoute ==
    \/ \E n \in SeedPeers, slotCount \in SlotCounts : New(n, slotCount)
    \/ \E n \in SeedPeers : bootstrap(n)
    \/ \E n \in SeedPeers : applyClusterConfig(n)
    \/ \E n \in SeedPeers, v \in Keys : getSlotID(n, v)

(***************************************************************************)
vars == <<deliveryVars, slotVars, configVars, apiVars, handlerVars>>


(***************************************************************************)
(* THE RECONCILIATION LOOP: Cluster.loopClusterConfig on one node, the     *)
(* events of clusterManager.readyChan, the ProposeToPeer calls of the      *)
(* handlers and Cluster.Stop.                                              *)
(***************************************************************************)
\* the fields of a ClusterReady in the order the loop tests them
Parts == <<"AllocateSlotSet", "SlotActions", "UpdatePeer", "SlotLeaderRelationSet">>
\* the handlers that call ProposeToPeer, which returns when the proposal is
\* applied or has failed: requestAllocateSlotSet, requestUpdatePeer,
\* requestUpdateSlotLeaderRelationSet
ProposingParts == {1, 3, 4}
\* a ClusterReady: which of its fields are not nil
ClusterReadys == [1..4 -> BOOLEAN]
NoClusterReady == [i \in 1..4 |-> FALSE]

InitLoop ==
    /\ lcReady = <<>>
    /\ lcPc = "select"
    /\ lcEvent = NoClusterReady
    /\ lcInflight = FALSE
    /\ lcStopChan = "open"
    /\ lcManager = TRUE
    /\ lcSent = 0
    /\ lcTaken = 0
    /\ lcTrace = <<>>

\* the cluster manager sends a reconciliation event on readyChan
readyChan_send(ev) ==
    /\ lcManager
    /\ lcSent < MaxEvents
    /\ lcReady' = Append(lcReady, ev)
    /\ lcSent' = lcSent + 1
    /\ UNCHANGED <<lcPc, lcEvent, lcInflight, lcStopChan, lcManager, lcTaken, lcTrace, notLoop>>

\* the part of the event ev the loop handles after part i (5: none is left)
NextPart(ev, i) ==
    IF \E j \in (i + 1)..4 : ev[j]
    THEN CHOOSE j \in (i + 1)..4 : ev[j] /\ \A k \in (i + 1)..(j - 1) : ~ev[k]
    ELSE 5

\* where the loop is after part i of ev
AfterPart(ev, i) == IF NextPart(ev, i) = 5 THEN "select" ELSE Parts[NextPart(ev, i)]

\* loopClusterConfig, line 189: the select receives an event from readyChan.
\* With stopChan closed both cases of the select can proceed and either is taken
loopClusterConfig_receive ==
    /\ lcPc = "select"
    /\ lcReady # <<>>
    /\ lcEvent' = Head(lcReady)
    /\ lcReady' = Tail(lcReady)
    /\ lcTaken' = lcTaken + 1
    /\ lcPc' = AfterPart(Head(lcReady), 0)
    /\ UNCHANGED <<lcInflight, lcStopChan, lcManager, lcSent, lcTrace, notLoop>>

\* loopClusterConfig, lines 203-204: the select receives from the closed stopChan
loopClusterConfig_return ==
    /\ lcPc = "select"
    /\ lcStopChan = "closed"
    /\ lcPc' = "returned"
    /\ UNCHANGED <<lcReady, lcEvent, lcInflight, lcStopChan, lcManager, lcSent, lcTaken,
                   lcTrace, notLoop>>

\* the index of the part the loop is at (0: none)
PartAt(pc) == IF \E i \in 1..4 : Parts[i] = pc THEN CHOOSE i \in 1..4 : Parts[i] = pc ELSE 0

\* loopClusterConfig, lines 190-201: the handler of the part the loop is at is
\* called. proposes: the handler gets to its ProposeToPeer call (it returns before
\* on an empty set or a marshal error; handleSlotActions never proposes)
loopClusterConfig_handle(proposes) ==
    LET i == PartAt(lcPc) IN
    /\ i # 0
    /\ ~lcInflight
    /\ proposes => i \in ProposingParts
    /\ IF proposes
       THEN /\ lcInflight' = TRUE
            /\ UNCHANGED <<lcPc, lcTrace>>
       ELSE /\ lcTrace' = Append(lcTrace, [ev |-> lcTaken, part |-> i, proposed |-> FALSE])
            /\ lcPc' = AfterPart(lcEvent, i)
            /\ UNCHANGED lcInflight
    /\ UNCHANGED <<lcReady, lcEvent, lcStopChan, lcManager, lcSent, lcTaken, notLoop>>

\* ProposeToPeer returns to the handler, with or without error, and the handler
\* returns to the loop
loopClusterConfig_proposed ==
    LET i == PartAt(lcPc) IN
    /\ lcInflight
    /\ lcInflight' = FALSE
    /\ lcTrace' = Append(lcTrace, [ev |-> lcTaken, part |-> i, proposed |-> TRUE])
    /\ lcPc' = AfterPart(lcEvent, i)
    /\ UNCHANGED <<lcReady, lcEvent, lcStopChan, lcManager, lcSent, lcTaken, notLoop>>

\* Cluster.Stop, line 154: close(c.stopChan)
Stop_close ==
    /\ lcStopChan = "open"
    /\ lcStopChan' = "closed"
    /\ UNCHANGED <<lcReady, lcPc, lcEvent, lcInflight, lcManager, lcSent, lcTaken, lcTrace,
                   notLoop>>

\* Cluster.Stop, lines 156-158: multiRaft.Stop() and clusterManager.Stop()
Stop_clusterManager ==
    /\ lcStopChan = "closed"
    /\ lcManager
    /\ lcManager' = FALSE
    /\ UNCHANGED <<lcReady, lcPc, lcEvent, lcInflight, lcStopChan, lcSent, lcTaken, lcTrace,
                   notLoop>>

NextLoop ==
    \/ \E ev \in ClusterReadys : readyChan_send(ev)
    \/ loopClusterConfig_receive
    \/ loopClusterConfig_return
    \/ \E proposes \in BOOLEAN : loopClusterConfig_handle(proposes)
    \/ loopClusterConfig_proposed
    \/ Stop_close
    \/ Stop_clusterManager


(***************************************************************************)
(* SLOT ACTIONS: Cluster.handleSlotActions over the SlotActions events of  *)
(* one node, the slots of its configuration and the slot groups multiRaft  *)
(* runs on it.                                                             *)
(***************************************************************************)
SaSlots == 1..MaxStartSlots

\* the kinds of a SlotAction: Start, and a kind handleSlotActions does not act on
SlotActionKinds == {"Start", "Other"}
SlotActionSet == [SlotID : SaSlots, Action : SlotActionKinds]

\* the lists of actions one SlotActions event can carry
ActionLists == UNION {[1..k -> SlotActionSet] : k \in 0..MaxActions}

\* multiRaft.IsStarted
IsStarted(groups, s) == s \in groups

\* clusterManagerOpts.GetSlotState, lines 67-72
GetSlotState(groups, s) ==
    IF IsStarted(groups, s) THEN "SlotStateStarted" ELSE "SlotStateNotStart"

\* Cluster.startSlot: the slot group of s is started on the node
startSlot(st, s) ==
    [st EXCEPT !.started = @ \cup {s}, !.count[s] = @ + 1]

\* handleSlotActions, lines 213-221: the loop over the actions
RECURSIVE handleSlotActions_loop(_, _, _)
handleSlotActions_loop(actions, config, st) ==
    IF actions = <<>> THEN st
    ELSE LET action == Head(actions)
             slot == config[action.SlotID]
             isStarted == IsStarted(st.started, action.SlotID)
             called == handleSlotActions_start(slot, isStarted)
             seen == [st EXCEPT !.log = Append(@, [slot |-> action.SlotID, exists |-> slot # {},
                                                   isStarted |-> isStarted, called |-> called])]
             next == IF action.Action # "Start" THEN st
                     ELSE IF called THEN startSlot(seen, action.SlotID)
                     ELSE seen
         IN handleSlotActions_loop(Tail(actions), config, next)

InitStart ==
    /\ saConfig = [s \in SaSlots |-> {}]
    /\ saStarted = {}
    /\ saCount = [s \in SaSlots |-> 0]
    /\ saLog = <<>>
    /\ saChan = <<>>
    /\ saEvents = 0

\* the node applies the allocation of slot s to the peers ps
slotActions_allocate(s, ps) ==
    /\ saConfig[s] = {}
    /\ ps # {}
    /\ saConfig' = [saConfig EXCEPT ![s] = ps]
    /\ UNCHANGED <<saStarted, saCount, saLog, saChan, saEvents, notStart>>

\* the cluster manager sends a SlotActions event to readyChan: any list of actions,
\* whatever the configuration and the started slot groups are
slotActions_send(actions) ==
    /\ saChan = <<>>
    /\ saEvents < MaxStartEvents
    /\ saChan' = <<actions>>
    /\ saEvents' = saEvents + 1
    /\ UNCHANGED <<saConfig, saStarted, saCount, saLog, notStart>>

\* loopClusterConfig, lines 193-195, into handleSlotActions, lines 209-222
slotActions_handle ==
    /\ saChan # <<>>
    /\ LET st == handleSlotActions_loop(Head(saChan), saConfig,
                     [started |-> saStarted, count |-> saCount, log |-> saLog])
       IN /\ saStarted' = st.started
          /\ saCount' = st.count
          /\ saLog' = st.log
    /\ saChan' = <<>>
    /\ UNCHANGED <<saConfig, saEvents, notStart>>

NextStart ==
    \/ \E s \in SaSlots, ps \in SUBSET SeedPeers : slotActions_allocate(s, ps)
    \/ \E actions \in ActionLists : slotActions_send(actions)
    \/ slotActions_handle

Init == InitDelivery /\ InitSlot /\ InitConfig /\ InitApi /\ InitSubs /\ InitSync
        /\ InitLife /\ InitIp /\ InitChan /\ InitRoute /\ InitLoop /\ InitStart

SpecDelivery == Init /\ [][NextDelivery]_vars

SpecSlot == Init /\ [][NextSlot]_vars

SpecConfig == Init /\ [][NextConfig]_vars

SpecBootstrap == Init /\ [][NextBootstrap]_vars

\* fair scheduling: the raft library delivers the leader change, the live
\* majority commits a proposal, each apply thread runs, and a blocked
\* SyncProposeToPeer returns once its entry is applied
FairBootstrap ==
    \A n \in SeedPeers :
        /\ WF_vars(OnLeaderChanged_peer(n))
        /\ WF_vars(ProposeToPeer_commit(n))
        /\ WF_vars(onNodeApply(n))
        /\ WF_vars(ProposeToPeer_return(n))

SpecBootstrapLive == Init /\ [][NextBootstrapLive]_vars /\ FairBootstrap

SpecApi == Init /\ [][NextApi]_vars

SpecSubs == Init /\ [][NextSubs]_vars

SpecSync == Init /\ [][NextSync]_vars

SpecLife == Init /\ [][NextLife]_vars

SpecIp == Init /\ [][NextIp]_vars

SpecChan == Init /\ [][NextChan]_vars

SpecValidate == Init /\ [][NextValidate]_vars

SpecDelete == Init /\ [][NextDelete]_vars

SpecLoop == Init /\ [][NextLoop]_vars

SpecStart == Init /\ [][NextStart]_vars

SpecRoute == Init /\ [][NextRoute]_vars

(***************************************************************************)
(* C1: a message handed to cross-peer delivery is acknowledged or          *)
(* delivered again: an entry leaves the in-flight queue only when its      *)
(* forward RPC returned Success or when its attempts reached maxAttempts   *)
(* (also when a forward fails or times out), and an entry in the queue     *)
(* always has a pending timer or a delivery that is about to arm one.      *)
(***************************************************************************)
C1_Redelivery ==
    \A no \in queue : armed[no] \/ \E a \in Calls : dpc[no][a] = "arm"

C1_Removal ==
    \A no \in Nos :
        (no \in queue /\ no \notin queue') =>
            (no \in acked' \/ attempts'[no] >= MaxAttempts)

C1_AckedOrRedelivered == []C1_Redelivery /\ [][C1_Removal]_vars

\* a forward failed, the entry stayed in the queue and was forwarded again
C1_Witness ==
    \E no \in queue :
        /\ attempts[no] >= 1
        /\ forwards(no) >= 2
        /\ no \notin acked
        /\ \E a \in Calls : dpc[no][a] = "done"

(***************************************************************************)
(* C9: after a successful cross-peer forward the destination holds the     *)
(* entry's message exactly once after deduplication by messageId, the      *)
(* entry is absent from the in-flight queue, and the in-flight timeout      *)
(* triggers no further redelivery of it.                                   *)
(***************************************************************************)
C9_Delivered ==
    \A no \in acked :
        /\ Cardinality({m \in destSeen : m = MessageIdOf(no)}) = 1
        /\ no \notin queue

C9_NoNewRedelivery ==
    \A no \in acked :
        /\ attempts'[no] = attempts[no]
        /\ \A a \in Calls : dpc[no][a] = "none" => dpc'[no][a] = "none"

C9_NoForwardAfterAck ==
    \A no \in acked : forwards(no)' = forwards(no)

AppendCalls ==
    {c \in CallIds : /\ call[c].pc = "done"
                     /\ ~call[c].err
                     /\ ~UnmarshalErr(call[c].data)
                     /\ Unmarshal(call[c].data).kind = "AppendMessages"}

C2_Dense ==
    \A n \in SlotPeers, ch \in Channels :
        /\ {r.seq : r \in store[n][ch]} = 1..Cardinality(store[n][ch])
        /\ \A r1, r2 \in store[n][ch] : r1.seq = r2.seq => r1 = r2

C2_Returned ==
    /\ \A c \in AppendCalls : call[c].result # NoData
    /\ \A c \in AppendCalls :
        LET cmd == Unmarshal(call[c].data)
            seqs == call[c].result.seqs
        IN /\ Len(seqs) = Len(cmd.mids)
           /\ \A i, j \in 1..Len(seqs) : i < j => seqs[i] < seqs[j]
           /\ \E n \in SlotPeers : \A i \in 1..Len(seqs) :
                  [seq |-> seqs[i], mid |-> cmd.mids[i]] \in store[n][cmd.ch]
           /\ \A d \in AppendCalls \ {c} :
                  Unmarshal(call[d].data).ch = cmd.ch =>
                      {seqs[i] : i \in 1..Len(seqs)} \cap
                      {call[d].result.seqs[i] : i \in 1..Len(call[d].result.seqs)} = {}

C2_DenseSeqs == C2_Dense /\ C2_Returned

\* two callers on different nodes appended to one channel and got seqs 1 and 2
C2_Witness ==
    \E c, d \in AppendCalls :
        /\ call[c].node # call[d].node
        /\ Unmarshal(call[c].data).ch = Unmarshal(call[d].data).ch
        /\ call[c].result.seqs[1] = 1
        /\ call[d].result.seqs[1] = Len(call[c].result.seqs) + 1

Committed(kind) ==
    {Unmarshal(peerLog[i]).param :
        i \in {j \in 1..Len(peerLog) : Unmarshal(peerLog[j]).kind = kind}}

C4_ReadsAreCommitted ==
    \A n \in SeedPeers :
        /\ GetPeers(n) # {} => GetPeers(n) \in Committed("UpdateClusterConfig")
        /\ \A p \in SeedPeers :
              GetPeer(n, p).ApiServerAddr => p \in Committed("UpdatePeerConfig")
        /\ GetSlot(n) # {} => GetSlot(n) \in Committed("AllocateSlot")
        /\ GetLeaderPeer(n) # 0 => GetLeaderPeer(n) \in Committed("UpdateSlotLeaderRelationSet")

\* two leaders were recorded by SetSlotLeader and committed; one node reads the
\* leader it applied locally after its proposal, the other the leader of the log
C4_Witness ==
    \E n, m \in SeedPeers :
        /\ Cardinality(Committed("UpdateSlotLeaderRelationSet")) = 2
        /\ cfgApplied[n] = Len(peerLog)
        /\ cfgApplied[m] = Len(peerLog)
        /\ GetLeaderPeer(n) = observed[n]
        /\ GetLeaderPeer(n) # Unmarshal(peerLog[Len(peerLog)]).param
        /\ GetLeaderPeer(m) = Unmarshal(peerLog[Len(peerLog)]).param
        /\ req[n].pc = "idle"

(***************************************************************************)
(* C5: in cluster mode a mutating endpoint that receives a request its     *)
(* checks accept, on a node whose cluster manager names another node as    *)
(* the leader of the channel's slot, forwards the bytes of the body        *)
(* unchanged to that leader and changes neither the storage nor a cached   *)
(* channel; storage and cache change only in a handler on the node that    *)
(* found itself the leader, and only that node's cache changes.            *)
(***************************************************************************)
Mutating == Endpoints \ {"/channel/messagesync", "/channel/max_message_seq"}

C5_ForwardStep ==
    \A r \in ReqIds :
        LET rq == areq[r] IN
        (/\ rq.pc = "recv"
         /\ rq.ep \in Mutating
         /\ areq'[r] # rq
         /\ ~BindJSON(rq.body).err
         /\ Check(rq.ep, BindJSON(rq.body).req)
         /\ apiLeader[rq.at] \notin {0, rq.at})
        => /\ areq'[r].pc = "recv"
           /\ areq'[r].at = apiLeader[rq.at]
           /\ areq'[r].body = rq.body
           /\ areq'[r].ep = rq.ep
           /\ db' = db
           /\ cache' = cache

C5_MutationStep ==
    (db' # db \/ cache' # cache) =>
        \E r \in ReqIds :
            /\ areq[r].pc = "store"
            /\ areq'[r] # areq[r]
            /\ areq[r].leaderSeen = areq[r].at
            /\ \A n \in SeedPeers : n # areq[r].at => cache'[n] = cache[n]

C5_NonLeaderForwards == [][C5_ForwardStep /\ C5_MutationStep]_vars

\* a request to create the channel was forwarded by a node that is not the leader
\* and the leader is storing it; storage and the cache of the receiver are untouched
C5_Witness ==
    \E r \in ReqIds :
        /\ areq[r].ep = "/channel"
        /\ areq[r].hops = 1
        /\ areq[r].pc = "store"
        /\ areq[r].step = 1
        /\ areq[r].body = JSON([id |-> r, uids |-> {IF r = 1 THEN "u1" ELSE "u2"}])
        /\ db.info = 0
        /\ \A n \in SeedPeers : cache[n] = 0

(***************************************************************************)
(* C6: SyncProposeToSlot proposes to the local slot group exactly on the   *)
(* nodes that hold a replica of the slot, whether or not the node is the   *)
(* raft leader; a node without a replica never proposes locally and sends  *)
(* the bytes by RPC to the leader its cluster manager names.               *)
(***************************************************************************)
C6_ReplicasProposeLocally ==
    \A c \in CallIds :
        /\ call[c].pc \in {"propose", "wait"} => call[c].node \in SlotPeers
        /\ call[c].pc \in {"rpc", "rwait"} =>
              call[c].node \notin SlotPeers /\ call[c].target # 0 /\ call[c].rpcs = 1
        /\ (call[c].pc = "done" /\ call[c].node \in SlotPeers) => call[c].rpcs = 0

\* the original statement: a node that proposes locally is the raft leader
C6_LocalProposerIsLeader ==
    \A c \in CallIds :
        (call[c].pc = "propose" /\ call'[c].pc = "wait") => call[c].node = raftLeader

C6_OnlyLeaderProposes == [][C6_LocalProposerIsLeader]_vars

\* a replica that is not the leader proposed locally and got the apply result
C6_Witness ==
    \E c \in CallIds :
        /\ call[c].pc = "done"
        /\ ~call[c].err
        /\ call[c].node \in SlotPeers
        /\ call[c].node # raftLeader
        /\ Len(slotLog) = 1

(***************************************************************************)
(* C7: a remote propose answered NotLeader is retried exactly once against *)
(* the leader re-read from the cluster manager: a call that saw NotLeader  *)
(* ends after two RPCs.                                                    *)
(***************************************************************************)
C7_RetriedOnce ==
    \A c \in CallIds :
        (call[c].pc = "done" /\ call[c].status = "NotLeader") => call[c].rpcs = 2

(***************************************************************************)
(* C8: a request to a leader-routed endpoint is forwarded between nodes at *)
(* most once, whatever leaders the nodes hold for the slot.                *)
(***************************************************************************)
C8_ForwardedAtMostOnce ==
    \A r \in ReqIds : areq[r].hops <= 1

(***************************************************************************)
(* C10: once blacklistSet (whitelistSet) requests on the channel have all  *)
(* been answered OK, the denylist (allowlist) is the UID list of the body  *)
(* of the set request answered last.                                       *)
(***************************************************************************)
SetsDone(ep) ==
    /\ Len(doneSeq) = MaxReqs
    /\ \A r \in ReqIds : areq[r].pc = "ok" /\ areq[r].ep = ep

LastBody == BindJSON(areq[doneSeq[Len(doneSeq)]].body).req

C10_LastWriterWins ==
    /\ SetsDone("/channel/blacklist_set") => db.denylist = LastBody.uids
    /\ SetsDone("/channel/whitelist_set") => db.allowlist = LastBody.uids

(***************************************************************************)
(* C11: adding a subscriber that the channel already has is a no-op.       *)
(* After addSubscriberWithReq the subscriber set is the union of the set   *)
(* before the call (the empty set when Reset = 1) and the non-blank uids   *)
(* of the request, whatever the request list repeats, and no uid that the  *)
(* store already held is passed to AddSubscribers.                         *)
(***************************************************************************)
\* the set the call started from, as the handler read it
C11_Before == {existSubscribers[i] : i \in 1..Len(existSubscribers)}

\* the non-blank uids of the request
C11_Requested ==
    {addReq.Subscribers[i] : i \in {j \in 1..Len(addReq.Subscribers) :
                                       addReq.Subscribers[j] \notin {"", " "}}}

C11_AddIsUnion ==
    /\ subscribers = C11_Before \cup C11_Requested
    /\ \A c \in 1..Len(addCalls) : \A i \in 1..Len(addCalls[c]) :
           addCalls[c][i] \notin C11_Before
    /\ (C11_Requested \subseteq C11_Before) => addCalls = <<>>

\* a request without Reset that repeats a uid the channel already has:
\* nothing is passed to AddSubscribers and the set is unchanged
C11_Witness ==
    /\ addReq.Reset = 0
    /\ addReq.Subscribers = <<"u1", "u1">>
    /\ "u1" \in C11_Before
    /\ addCalls = <<>>
    /\ subscribers = C11_Before

(***************************************************************************)
(* C12: the sync endpoint clamps a limit above 10000 to 10000, and its     *)
(* more flag is true exactly when the number of returned messages equals   *)
(* the effective limit and the requested range is not exhausted; more is   *)
(* false when no messages are returned, whatever the limit (0 and negative *)
(* limits included).                                                       *)
(***************************************************************************)
\* the whole requested range, as the store would return it without a limit
C12_Range ==
    loadMsgs(syncLoad.fn, syncLoad.lastSeq, syncLoad.startSeq, syncLoad.endSeq, MaxSeq)

C12_Clamped ==
    syncLoad.fn # "none" =>
        syncLoad.limit = (IF syncReq.Limit > 10000 THEN 10000 ELSE syncReq.Limit)

C12_MoreIsAccurate ==
    syncLoad.fn # "none" =>
        /\ C12_Clamped
        /\ syncResp.More <=> (/\ Len(syncResp.Messages) = syncLoad.limit
                              /\ Len(C12_Range) > Len(syncResp.Messages))
        /\ syncResp.Messages = <<>> => ~syncResp.More

\* the part of C12 about an empty answer alone
C12_EmptyHasNoMore ==
    (syncLoad.fn # "none" /\ syncResp.Messages = <<>>) => ~syncResp.More

(***************************************************************************)
(* C13: a sync request with start_message_seq = 0 and end_message_seq = 0  *)
(* returns the newest limit messages of the channel (LoadLastMsgs) in      *)
(* either pull mode; every other request loads the ascending range in      *)
(* pull mode UP and the descending range in pull mode DOWN.                *)
(***************************************************************************)
\* the messages are in ascending (dir = 1) or descending (dir = -1) seq order
C13_Ordered(q, dir) == \A i \in 1..(Len(q) - 1) : q[i + 1] = q[i] + dir

\* the newest k messages of the channel, newest last
C13_Newest(k) == [i \in 1..k |-> syncLoad.lastSeq - k + i]

C13_LoadSelection ==
    syncLoad.fn # "none" =>
        IF syncReq.StartMessageSeq = 0 /\ syncReq.EndMessageSeq = 0
        THEN /\ syncLoad.fn = "LoadLastMsgs"
             /\ syncReq.Limit >= 0 =>
                    syncResp.Messages =
                        C13_Newest(IF syncLoad.limit < syncLoad.lastSeq
                                   THEN syncLoad.limit ELSE syncLoad.lastSeq)
        ELSE IF syncReq.PullMode = PullModeUp
        THEN /\ syncLoad.fn = "LoadNextRangeMsgs"
             /\ C13_Ordered(syncResp.Messages, 1)
        ELSE /\ syncLoad.fn = "LoadPrevRangeMsgs"
             /\ C13_Ordered(syncResp.Messages, -1)

\* a request with both seqs 0 in pull mode UP on a channel of more than two
\* messages is served by LoadLastMsgs and answers the two newest
C13_Witness ==
    /\ syncLoad.lastSeq > 2
    /\ syncReq.StartMessageSeq = 0 /\ syncReq.EndMessageSeq = 0
    /\ syncReq.PullMode = PullModeUp
    /\ syncReq.Limit = 2
    /\ syncLoad.fn = "LoadLastMsgs"
    /\ syncResp.Messages = <<syncLoad.lastSeq - 1, syncLoad.lastSeq>>

(***************************************************************************)
(* C14: on a channel holding seqs 1..10, a sync request with startSeq 3,   *)
(* endSeq 7 and limit 10 answers seqs 3,4,5,6 in ascending order with      *)
(* more = false in pull mode UP, and seqs 7,6,5,4 in descending order      *)
(* with more = false in pull mode DOWN.                                    *)
(***************************************************************************)
\* the request of the scenario was served on the channel of ten messages
C14_Scenario(pullMode) ==
    /\ syncLoad.fn # "none"
    /\ syncLoad.lastSeq = 10
    /\ syncReq = [StartMessageSeq |-> 3, EndMessageSeq |-> 7, Limit |-> 10,
                  PullMode |-> pullMode]

ReadEndpoints == {"/channel/messagesync", "/channel/max_message_seq"}

\* request r is a read the handler of its node is about to route, on a node
\* whose cluster manager knows the channel
C15_ReadAt(r, ep) ==
    /\ areq[r].pc = "recv"
    /\ areq[r].ep = ep
    /\ areq'[r] # areq[r]
    /\ areq[r].body # Garbage
    /\ apiLeader[areq[r].at] # 0

\* the step answers r from the storage of the node that received it
C15_AnsweredLocally(r) ==
    /\ areq'[r].pc = "ok"
    /\ areq'[r].step = 1
    /\ areq'[r].at = areq[r].at
    /\ areq'[r].hops = areq[r].hops

C15_ReadStep ==
    \A r \in ReqIds :
        /\ C15_ReadAt(r, "/channel/max_message_seq") => C15_AnsweredLocally(r)
        /\ C15_ReadAt(r, "/channel/messagesync") =>
              IF apiLeader[areq[r].at] = areq[r].at
              THEN C15_AnsweredLocally(r)
              ELSE /\ areq'[r].pc = "recv"
                   /\ areq'[r].at = apiLeader[areq[r].at]
                   /\ areq'[r].hops = areq[r].hops + 1
                   /\ areq'[r].body = areq[r].body
                   /\ areq'[r].ep = areq[r].ep
        /\ (\E ep \in ReadEndpoints : C15_ReadAt(r, ep)) => db' = db /\ cache' = cache

C16_Unresolved(r) ==
    /\ areq[r].pc = "recv"
    /\ areq'[r] # areq[r]
    /\ ~BindJSON(areq[r].body).err
    /\ Check(areq[r].ep, BindJSON(areq[r].body).req)
    /\ apiLeader[areq[r].at] = 0

C16_UnresolvedStep ==
    \A r \in ReqIds :
        C16_Unresolved(r) =>
            /\ db' = db
            /\ cache' = cache
            /\ areq[r].ep = "/channel/messagesync" =>
                  /\ areq'[r].pc = "ok"
                  /\ areq'[r].step = 0
                  /\ areq'[r].at = areq[r].at
                  /\ areq'[r].hops = areq[r].hops
            /\ areq[r].ep \in Mutating => areq'[r].pc = "error"

C16_NoConfigEmptyReadErrorWrite == [][C16_UnresolvedStep]_vars

\* no node resolves a leader, one request was answered with the empty
\* result and the other with an error, and the storage is untouched
C16_Witness ==
    /\ \A n \in SeedPeers : apiLeader[n] = 0
    /\ \E r \in ReqIds :
          /\ areq[r].ep = "/channel/messagesync"
          /\ areq[r].pc = "ok"
          /\ areq[r].step = 0
          /\ areq[r].hops = 0
    /\ \E r \in ReqIds : areq[r].pc = "error"
    /\ db = [info |-> 0, subscribers |-> {}, denylist |-> {}, allowlist |-> {}]

(***************************************************************************)
(* C17: Server.Stop shuts down in drain order: the dispatcher and the API  *)
(* server are stopped, so that no new client or API request is accepted,   *)
(* before the raft groups are stopped, and the storage is closed only      *)
(* after the raft groups and every component that can propose or call the  *)
(* storage have been stopped.                                              *)
(***************************************************************************)
\* the server was started and component c has been stopped
C17_Stopped(c) == srvPc \in {"stopping", "exited"} /\ c \notin running

C17_AcceptorsBeforeRaft ==
    (srvOpts.ClusterOn /\ C17_Stopped("multiRaft")) =>
        (C17_Stopped("dispatch") /\ C17_Stopped("apiServer"))

C17_StorageLast ==
    C17_Stopped("store") => running = {}

C17_DrainOrder == C17_AcceptorsBeforeRaft /\ C17_StorageLast

(***************************************************************************)
(* C18: the seed ClusterConfig is proposed only by a node at the moment it *)
(* becomes leader of the peer group and only while its cluster manager     *)
(* holds no peers; once a configuration with peers has been applied on a   *)
(* node, no later election of that node proposes the seed again; and       *)
(* across any sequence of leader changes the peer log receives the seed    *)
(* configuration at most once.                                             *)
(***************************************************************************)
SeedData == NewCMDReq("UpdateClusterConfig", SeedPeers)

\* the step hands the seed configuration to ProposeToPeer on n
C18_ProposesSeed(n) ==
    /\ req[n].pc = "idle"
    /\ req'[n].pc = "propose"
    /\ req'[n].data = SeedData

\* the seed is proposed only by the new leader while it holds no peers
C18_ProposedByEmptyLeader ==
    [][\A n \in SeedPeers :
          C18_ProposesSeed(n) => (peerLeader = n /\ GetPeers(n) = {})]_vars

\* how often the seed configuration is in the peer log
C18_SeedsInLog == Cardinality({i \in 1..Len(peerLog) : peerLog[i] = SeedData})

C18_SeedAtMostOnce == C18_SeedsInLog <= 1

(***************************************************************************)
(* C19: in a cluster whose peers start with the same seed list, once a     *)
(* leader of the peer group is elected, the bootstrap proposal issued      *)
(* inside the leader-change callback eventually commits and returns, the   *)
(* callback then records the new leader id, and every node eventually      *)
(* applies the same cluster configuration (fair scheduling, live           *)
(* majority).                                                              *)
(***************************************************************************)
\* every node holds the seed configuration and has applied the whole log
C19_Converged ==
    \A n \in SeedPeers :
        /\ cfgApplied[n] = Len(peerLog)
        /\ cfg[n] = [EmptyConfig EXCEPT !.peers = SeedPeers]

\* the bootstrap proposal of n is in flight
C19_Bootstrapping(n) == req[n].pc # "idle" /\ req[n].from = "bootstrap"

C20_Starts(n) == ~started[n] /\ started'[n]

C20_StartedOnlyOnSlotPeers ==
    [][\A n \in SeedPeers : C20_Starts(n) => n \in GetSlot(n)]_vars

\* the part of C20 that holds: no replica of an unallocated slot is started
C20_StartedOnlyIfAllocated ==
    [][\A n \in SeedPeers : C20_Starts(n) => GetSlot(n) # {}]_vars

(***************************************************************************)
(* C21: for a SlotLeaderRelationSet event the update is first proposed to  *)
(* the peer raft group, and only after that proposal has succeeded is it   *)
(* applied to the local cluster manager (UpdatedSlotLeaderRelations); when *)
(* the proposal fails the local cluster manager is left unchanged.         *)
(***************************************************************************)
\* the step changes the configuration of n and is not a step of the apply thread
C21_LocalApply(n) == cfg'[n] # cfg[n] /\ cfgApplied'[n] = cfgApplied[n]

\* the ProposeToPeer call of n carries a SlotLeaderRelationSet that is committed
\* in the peer log and applied on n, which is when SyncProposeToPeer returns nil
C21_ProposalSucceeded(n) ==
    /\ req[n].pc = "wait"
    /\ Unmarshal(req[n].data).kind = "UpdateSlotLeaderRelationSet"
    /\ req[n].idx \in 1..Len(peerLog)
    /\ peerLog[req[n].idx] = req[n].data
    /\ cfgApplied[n] >= req[n].idx

C21_ProposeThenApplyLocally ==
    [][\A n \in SeedPeers :
          /\ C21_LocalApply(n) =>
                /\ C21_ProposalSucceeded(n)
                /\ cfg'[n] = UpdatedSlotLeaderRelations(cfg[n], Unmarshal(req[n].data).param)
          /\ (req[n].pc = "propose" /\ req'[n].pc = "idle") => cfg'[n] = cfg[n]]_vars

\* the local apply of a handler has acted after the apply thread: n has applied
\* the whole log, whose last entry is a leader relation, and reads another leader
C21_Witness ==
    \E n \in SeedPeers :
        /\ req[n].pc = "idle"
        /\ Len(peerLog) > 0
        /\ cfgApplied[n] = Len(peerLog)
        /\ Unmarshal(peerLog[Len(peerLog)]).kind = "UpdateSlotLeaderRelationSet"
        /\ GetLeaderPeer(n) # 0
        /\ GetLeaderPeer(n) # Unmarshal(peerLog[Len(peerLog)]).param

(***************************************************************************)
(* C22: the IP blacklist is concurrency-safe: under any interleaving of    *)
(* AllowIP, AddIPBlacklist, RemoveIPBlacklist and initIPBlacklist each     *)
(* operation takes effect atomically, AllowIP(ip) returns false exactly    *)
(* when ip is in the blacklist at that point and true otherwise, an        *)
(* AllowIP that returns true changes nothing, and the stored block count   *)
(* of an ip is the number of AllowIP calls denied for it since it was last *)
(* added.                                                                  *)
(***************************************************************************)
\* the goroutines between the first and the last statement of a call
C22_Inside == {t \in IpThreads : ipThr[t].pc # "idle"}

\* what the last AllowIP call of t returned, against the map when it returned
C22_AllowIPResult(t) ==
    (ipThr[t].op = "AllowIP" /\ ipThr[t].pc = "idle") =>
        /\ ipThr[t].ret = ~ipThr[t].listed
        /\ ipThr[t].ret => ipThr[t].after = ipThr[t].before

C22_BlacklistIsAtomic ==
    /\ Cardinality(C22_Inside) <= 1
    /\ C22_Inside # {} => C22_Inside = {ipLock}
    /\ \A t \in IpThreads : C22_AllowIPResult(t)
    /\ \A ip \in DOMAIN ipBlacklist : ipBlacklist[ip] = denied[ip]

\* two goroutines were denied for ip1, one after the other, and one of them was
\* then allowed for ip2, while ip1 stays listed with both denied calls counted
C22_Witness ==
    /\ ipLock = 0
    /\ DOMAIN ipBlacklist = {"ip1"}
    /\ ipBlacklist["ip1"] = 2
    /\ ipThr[1].op = "AllowIP" /\ ipThr[1].ip = "ip1" /\ ~ipThr[1].ret
    /\ ipThr[2].op = "AllowIP" /\ ipThr[2].ip = "ip2" /\ ipThr[2].ret
    /\ ipThr[2].before = ipBlacklist

(***************************************************************************)
(* C23: whenever the subscriber set of a channel is changed on the slot    *)
(* leader by a successful request (addSubscriber, removeSubscriber, or     *)
(* channelCreateOrUpdate, which replaces the whole set) and the channel is *)
(* cached in the channel reactor, the cached receiver tag is recomputed:   *)
(* after the request completes the cached receiver tag corresponds to the  *)
(* current subscriber set.                                                 *)
(***************************************************************************)
\* no handler is between two statements and no request has failed
C23_Completed == \A r \in ChReqIds : chReq[r].pc \in {"idle", "recv", "ok"}

\* a request to one of the endpoints eps was answered OK
C23_Succeeded(eps) == \E r \in ChReqIds : chReq[r].pc = "ok" /\ chReq[r].ep \in eps

C23_TagFollowsSubscribers ==
    (/\ C23_Completed
     /\ C23_Succeeded({"/channel", "/channel/subscriber_add", "/channel/subscriber_remove"})
     /\ chCache.cached)
    => chCache.tag = chStore.subscribers

\* the part of C23 that holds: the tag is current while channelCreateOrUpdate
\* has not run on the channel
C23_TagFollowsAddAndRemove ==
    (/\ C23_Completed
     /\ \A r \in ChReqIds : chReq[r].ep # "/channel"
     /\ C23_Succeeded({"/channel/subscriber_add", "/channel/subscriber_remove"})
     /\ chCache.cached)
    => chCache.tag = chStore.subscribers

(***************************************************************************)
(* C24: for a fixed cluster configuration every node computes the same     *)
(* slot id for the same channel key, and a node never routes a channel     *)
(* (getSlotID, GetLeaderPeer, inPeer) using a slot count different from    *)
(* the one in the committed cluster configuration, including before that   *)
(* node has applied the configuration.                                     *)
(***************************************************************************)
\* the step is a getSlotID call on n
C24_Routes(n) == rtLast'[n] # rtLast[n]

C24_RoutesWithCommittedSlotCount ==
    [][\A n \in SeedPeers :
          (C24_Routes(n) /\ rtCommitted # 0) => rtLast'[n].slotCount = rtCommitted]_vars

\* the part of C24 that holds: nodes that have applied the configuration use
\* its slot count, and equal slot counts give equal slot ids for equal keys
C24_SameSlotOnAppliedNodes ==
    /\ \A n, m \in SeedPeers :
          (/\ rtLast[n].v # <<>>
           /\ rtLast[n].v = rtLast[m].v
           /\ rtLast[n].slotCount = rtLast[m].slotCount)
          => rtLast[n].slotID = rtLast[m].slotID
    /\ \A n \in SeedPeers : rtApplied[n] => rtSlotCount[n] = rtCommitted
    /\ \A n \in SeedPeers :
          rtLast[n].v # <<>> =>
             /\ rtLast[n].slotID \in 0..(rtLast[n].slotCount - 1)
             /\ (rtLast[n].v = <<2, 103, 49>> /\ rtLast[n].slotCount = 2) => rtLast[n].slotID = 1
             /\ (rtLast[n].v = <<2, 103, 49>> /\ rtLast[n].slotCount = 3) => rtLast[n].slotID = 0
             /\ (rtLast[n].v = <<97>> /\ rtLast[n].slotCount = 2) => rtLast[n].slotID = 0
             /\ (rtLast[n].v = <<97>> /\ rtLast[n].slotCount = 3) => rtLast[n].slotID = 1


\* C25: deleting a channel is idempotent. A channelDelete request that reaches the
\* store after an earlier channelDelete request was answered with success, the
\* channel still being deleted, leaves the store as it is and is answered with
\* success; the only other answer is the error of a failing storage.
C25_RepeatedDelete(r) ==
    /\ chReq[r].ep = "/channel/delete"
    /\ chReq[r].pc = "DeleteChannelAndClearMessages"
    /\ ~chStore.exist
    /\ \E o \in ChReqIds \ {r} : chReq[o].ep = "/channel/delete" /\ chReq[o].pc = "ok"

C25_DeleteIsIdempotent ==
    [][\A r \in ChReqIds :
          (C25_RepeatedDelete(r) /\ chReq'[r] # chReq[r]) =>
              /\ chStore' = chStore
              /\ chReq'[r].pc \in {"ok", "error"}
              /\ chReq'[r].pc = "error" => chReq'[r].storeErr]_vars

\* the channel is created, then two channelDelete requests are answered with
\* success and the channel is gone
C25_Witness ==
    /\ \E c \in ChReqIds : chReq[c].ep = "/channel" /\ chReq[c].pc = "ok"
    /\ \E r, o \in ChReqIds :
          /\ r # o
          /\ \A d \in {r, o} : /\ chReq[d].ep = "/channel/delete"
                               /\ chReq[d].pc = "ok"
                               /\ chReq[d].storeCalls = 1
    /\ ~chStore.exist


(***************************************************************************)
(* C26: a failing entry halts the slot group of the replica. OnSlotApply   *)
(* on a batch with an entry that cannot be unmarshalled or applied returns *)
(* the error and no result entries, and the store it leaves holds nothing  *)
(* of the failing entry or of an entry behind it; the replica records no   *)
(* result of the batch, applies nothing afterwards, and a proposer is      *)
(* answered with success only for an entry of a batch that succeeded.      *)
(***************************************************************************)
\* the entry is one Unmarshal or fsm.Apply fails on
C26_Fails(entry) ==
    \/ UnmarshalErr(entry.data)
    \/ Unmarshal(entry.data).kind \notin {"AppendMessages", "AddOrUpdateChannel"}

\* the messageIds of entry are in the store st
C26_Applied(st, entry) ==
    /\ ~UnmarshalErr(entry.data)
    /\ Unmarshal(entry.data).kind = "AppendMessages"
    /\ \E m \in SetOf(Unmarshal(entry.data).mids) :
          \E rec \in st[Unmarshal(entry.data).ch] : rec.mid = m

\* OnSlotApply on every batch the replica n can be handed
C26_ReturnsErrorOnly(n) ==
    \A k \in 1..(Len(slotLog) - cursor[n]) :
        LET batch == SubSeq(slotLog, cursor[n] + 1, cursor[n] + k)
            r == OnSlotApply(store[n], SlotID, batch)
        IN (\E i \in 1..k : C26_Fails(batch[i])) =>
              /\ r.err
              /\ r.entries = <<>>
              /\ \A i, j \in 1..k :
                    (C26_Fails(batch[i]) /\ i <= j) => ~C26_Applied(r.store, batch[j])

\* the replica a call in flight gets its answer from
C26_AnsweredBy(c) == IF call[c].pc = "wait" THEN call[c].node ELSE call[c].target

C26_ApplyFailureHalts ==
    [][/\ \A n \in SlotPeers :
             /\ ~halted[n] => C26_ReturnsErrorOnly(n)
             /\ (~halted[n] /\ halted'[n]) => results'[n] = results[n]
             /\ halted[n] => /\ halted'[n]
                             /\ store'[n] = store[n]
                             /\ cursor'[n] = cursor[n]
                             /\ results'[n] = results[n]
       /\ \A c \in CallIds :
             (/\ call[c].pc \in {"wait", "rwait"}
              /\ call'[c].pc = "done"
              /\ call'[c].status = "Success") =>
                 /\ call[c].idx <= Len(results[C26_AnsweredBy(c)])
                 /\ ~C26_Fails(slotLog[call[c].idx])]_vars

\* a replica halted on the first entry of a batch of two: nothing of the entry
\* behind it is in its store, it holds no result, and the proposer of the
\* entry behind it was answered with the error
C26_Witness ==
    \E n \in SlotPeers :
        /\ halted[n]
        /\ Len(slotLog) = 2
        /\ cursor[n] = 0
        /\ C26_Fails(slotLog[1])
        /\ ~C26_Fails(slotLog[2])
        /\ ~C26_Applied(store[n], slotLog[2])
        /\ results[n] = <<>>
        /\ \E c \in CallIds : /\ call[c].pc = "done"
                              /\ call[c].idx = 0
                              /\ call[c].data = slotLog[2].data
                              /\ call[c].err
                              /\ call[c].status \in {"apply", "Error"}


(***************************************************************************)
(* C27: the apply result goes back to its own proposer. OnSlotApply on a   *)
(* batch without a failing entry returns one entry per entry of the batch, *)
(* in the order of the batch, each with the response of its own command    *)
(* applied behind the entries in front of it with the slot id of the       *)
(* group; doCommand returns the response of the entry its call proposed:   *)
(* the seqs its own messages have in the store, or nothing for a command   *)
(* without response.                                                       *)
(***************************************************************************)
C27_OneResultPerEntry(n) ==
    \A k \in 1..(Len(slotLog) - cursor[n]) :
        LET batch == SubSeq(slotLog, cursor[n] + 1, cursor[n] + k)
            r == OnSlotApply(store[n], SlotID, batch)
        IN ~r.err =>
              /\ Len(r.entries) = k
              /\ \A i \in 1..k :
                    LET cmd == Unmarshal(batch[i].data)
                        before == OnSlotApply(store[n], SlotID, SubSeq(batch, 1, i - 1)).store
                    IN /\ r.entries[i].data = batch[i].data
                       /\ r.entries[i].result = fsmApply(before, cmd, SlotID).resp
                       /\ cmd.kind = "AddOrUpdateChannel" => r.entries[i].result = NoData
                       /\ cmd.kind = "AppendMessages" =>
                             LET resp == UnmarshalResp(r.entries[i].result)
                             IN /\ resp.slot = SlotID
                                /\ Len(resp.seqs) = Len(cmd.mids)
                                /\ \A j \in 1..Len(cmd.mids) :
                                      [seq |-> resp.seqs[j], mid |-> cmd.mids[j]]
                                          \in r.store[cmd.ch]

\* the replica a waiting call is answered by
C27_AnsweredBy(c) == IF call[c].pc = "wait" THEN call[c].node ELSE call[c].target

C27_OwnResponse(c) ==
    LET s == C27_AnsweredBy(c)
        cmd == Unmarshal(call[c].data)
    IN /\ slotLog[call[c].idx].data = call[c].data
       /\ results[s][call[c].idx].data = call[c].data
       /\ ~call'[c].err
       /\ cmd.kind = "AddOrUpdateChannel" => call'[c].result = NoData
       /\ cmd.kind = "AppendMessages" =>
             /\ call'[c].result # NoData
             /\ call'[c].result.slot = SlotID
             /\ Len(call'[c].result.seqs) = Len(cmd.mids)
             /\ \A j \in 1..Len(cmd.mids) :
                   [seq |-> call'[c].result.seqs[j], mid |-> cmd.mids[j]] \in store[s][cmd.ch]

C27_ResultToItsProposer ==
    [][/\ \A n \in SlotPeers : ~halted[n] => C27_OneResultPerEntry(n)
       /\ \A c \in CallIds :
             (/\ call[c].pc \in {"wait", "rwait"}
              /\ call'[c].pc = "done"
              /\ call'[c].status = "Success") => C27_OwnResponse(c)]_vars

\* two calls proposed to the group, applied by a replica in one log of two
\* entries: the one that appended got its seqs, the one that changed the
\* channel got no response
C27_Witness ==
    \E c, d \in CallIds :
        /\ c # d
        /\ call[c].pc = "done" /\ call[d].pc = "done"
        /\ call[c].status = "Success" /\ call[d].status = "Success"
        /\ Unmarshal(call[c].data).kind = "AppendMessages"
        /\ Unmarshal(call[d].data).kind = "AddOrUpdateChannel"
        /\ call[c].result # NoData
        /\ call[c].result.seqs = <<1>>
        /\ call[d].result = NoData
        /\ call[c].node # call[d].node
        /\ \E n \in SlotPeers : Len(results[n]) = 2


(***************************************************************************)
(* C28: a request with a permanent input error is answered with an error   *)
(* before the routing block and before any call of the store: no leader    *)
(* lookup, no forward, no store call, and the store is as it was.          *)
(***************************************************************************)
\* the handlers that call req.Check()
C28_Checked == {"/channel", "/channel/subscriber_add", "/channel/subscriber_remove",
                "/channel/blacklist_add", "/channel/blacklist_remove",
                "/channel/whitelist_add", "/channel/whitelist_remove"}

\* the body b sent to the handler ep has a permanent input error
C28_PermanentInputError(ep, b) ==
    \/ ~b.json
    \/ ep \in C28_Checked /\ ~req_Check(b)
    \/ /\ ep \in {"/channel", "/channel/subscriber_add", "/channel/subscriber_remove",
                  "/channel/delete"}
       /\ b.channelType = ChannelTypePerson
    \/ ep = "/channel/subscriber_add" /\ b.temp = 1
    \/ ep \in {"/channel/blacklist_add", "/channel/whitelist_add"} /\ b.uids = <<>>

C28_RejectedBeforeRouting ==
    \A r \in ChReqIds :
        (chReq[r].pc # "idle" /\ C28_PermanentInputError(chReq[r].ep, chReq[r].body)) =>
            /\ chReq[r].pc \in {"recv", "error"}
            /\ chReq[r].lookups = 0
            /\ chReq[r].forwards = 0
            /\ chReq[r].storeCalls = 0
            /\ ~chStore.exist
            /\ chStore.subscribers = {} /\ chStore.denylist = {} /\ chStore.allowlist = {}

\* a well-formed subscriber_add request on a group channel with TempSubscriber 1
\* was answered with the error, and a blacklist_add request without uids too
C28_Witness ==
    \E r \in ChReqIds :
        /\ chReq[r].pc = "error"
        /\ chReq[r].body.json
        /\ req_Check(chReq[r].body)
        /\ chReq[r].body.channelType = ChannelTypeGroup
        /\ \/ chReq[r].ep = "/channel/subscriber_add" /\ chReq[r].body.temp = 1
           \/ chReq[r].ep = "/channel/blacklist_add" /\ chReq[r].body.uids = <<>>
        /\ chReq[r].lookups = 0
        /\ chReq[r].storeCalls = 0


(***************************************************************************)
(* C29: the events of readyChan are handled by one loop, one at a time: an *)
(* event is received only when no handler and no ProposeToPeer call of the *)
(* event before is open, the parts of an event are handled in the order    *)
(* AllocateSlotSet, SlotActions, UpdatePeer, SlotLeaderRelationSet, and    *)
(* once stopChan is closed the loop receives no further event.             *)
(***************************************************************************)
\* the loop receives an event in this step
C29_Receives == lcTaken' # lcTaken

\* the parts handled so far are in the order of the events and, within an
\* event, in the order of the parts
C29_InOrder ==
    \A i, j \in 1..Len(lcTrace) :
        i < j => \/ lcTrace[i].ev < lcTrace[j].ev
                 \/ lcTrace[i].ev = lcTrace[j].ev /\ lcTrace[i].part < lcTrace[j].part

\* every part of the event in hand that is not nil has been handled
C29_EventDone ==
    \A i \in 1..4 : lcEvent[i] => \E k \in 1..Len(lcTrace) : lcTrace[k].ev = lcTaken /\ lcTrace[k].part = i

C29_OneEventAtATime ==
    [][/\ C29_InOrder'
       /\ C29_Receives => (lcPc = "select" /\ ~lcInflight /\ C29_EventDone)
       /\ lcPc = "returned" => (~C29_Receives /\ lcTrace' = lcTrace /\ lcPc' = "returned")]_vars

C29_SingleLoopUntilStop ==
    [][/\ C29_InOrder'
       /\ C29_Receives => (lcPc = "select" /\ ~lcInflight /\ C29_EventDone)
       /\ lcPc = "returned" => (~C29_Receives /\ lcTrace' = lcTrace /\ lcPc' = "returned")
       /\ lcStopChan = "closed" => ~C29_Receives]_vars


(***************************************************************************)
(* C30: addSubscriber does not overwrite the configuration of an existing  *)
(* channel. The AddOrUpdateChannel call with the default info that         *)
(* addSubscriber makes for a channel it did not find leaves the info of a  *)
(* channel that is in the store as it is, whatever a concurrent            *)
(* channelCreateOrUpdate or updateOrAddChannelInfo request has written.    *)
(***************************************************************************)
\* request r is an addSubscriber request whose default creation succeeds in this step
C30_CreatesDefault(r) ==
    /\ chReq[r].ep = "/channel/subscriber_add"
    /\ chReq[r].pc = "AddOrUpdateChannel_default"
    /\ chReq'[r].pc \notin {"AddOrUpdateChannel_default", "error"}

C30_KeepsExistingInfo ==
    [][\A r \in ChReqIds :
          (C30_CreatesDefault(r) /\ chStore.exist) => chStore'.info = chStore.info]_vars

\* addSubscriber goes on to the default creation only when its ExistChannel
\* call found no channel
C30_CreatesOnlyWhenNotFound ==
    [][\A r \in ChReqIds :
          (/\ chReq[r].ep = "/channel/subscriber_add"
           /\ chReq[r].pc = "ExistChannel"
           /\ chReq'[r].pc = "AddOrUpdateChannel_default") => ~chStore.exist]_vars


(***************************************************************************)
(* C31: channelCreateOrUpdate replaces the membership. With no other       *)
(* request writing the channel while it runs, a request answered OK leaves *)
(* the channel with the info of the request and with exactly the           *)
(* subscribers of the request, and a request answered with an error leaves *)
(* the info and the subscribers the channel had when the request started.  *)
(***************************************************************************)
\* no other request has run a statement since the handler of r started
C31_NoConcurrentWriter(r) ==
    \A o \in ChReqIds \ {r} :
        o \in chReq[r].before.answered \/ chReq[o].pc \in {"idle", "recv"}

C31_OkReplaces ==
    \A r \in ChReqIds :
        (/\ chReq[r].ep = "/channel"
         /\ chReq[r].pc = "ok"
         /\ C31_NoConcurrentWriter(r)) =>
            /\ chStore.exist
            /\ chStore.info = chReq[r].body.info
            /\ chStore.subscribers = SetOf(chReq[r].body.uids)

C31_ErrorKeeps ==
    \A r \in ChReqIds :
        (/\ chReq[r].ep = "/channel"
         /\ chReq[r].pc = "error"
         /\ C31_NoConcurrentWriter(r)) =>
            /\ chStore.info = chReq[r].before.info
            /\ chStore.subscribers = chReq[r].before.subscribers

C31_ReplacesOrKeeps == C31_OkReplaces /\ C31_ErrorKeeps


(***************************************************************************)
(* C32: startDeliveryPeerData arms the in-flight timeout of the entry      *)
(* before ForwardRecvPacketReq sends the request, and calls finishMessage  *)
(* exactly when the forward returned Success: a failed forward leaves the  *)
(* queue, the attempts and the timer of the entry as they are, so an entry *)
(* still in the queue keeps a timeout that is pending or about to be armed *)
(* by a redelivery.                                                        *)
(***************************************************************************)
\* attempt a of entry no moves to the position pc in this step
C32_Reaches(no, a, pc) == dpc[no][a] # pc /\ dpc'[no][a] = pc

C32_ArmedBeforeSend(no, a) ==
    /\ C32_Reaches(no, a, "send") => (dpc[no][a] = "arm" /\ armed'[no])
    /\ C32_Reaches(no, a, "rpc") => dpc[no][a] = "send"

C32_FinishIffSuccess(no, a) ==
    C32_Reaches(no, a, "done") =>
        /\ \/ /\ queue' = queue \ {no}
              /\ no \in acked'
              /\ dpc[no][a] = "recvd"
           \/ /\ queue' = queue
              /\ acked' = acked
        /\ (queue' = queue /\ acked' = acked /\ no \in queue) =>
              (armed'[no] \/ \E b \in Calls : dpc'[no][b] = "arm")
        /\ armed' = armed
        /\ attempts' = attempts

C32_TimeoutThenForwardThenFinish ==
    [][\A no \in Nos, a \in Calls :
          C32_ArmedBeforeSend(no, a) /\ C32_FinishIffSuccess(no, a)]_vars

\* the first forward of an entry failed before the destination handled it: the
\* entry is in the queue, not acknowledged, with its timeout pending and no
\* redelivery started
C32_Witness ==
    \E no \in queue :
        /\ dpc[no][0] = "done"
        /\ no \notin acked
        /\ MessageIdOf(no) \notin destSeen
        /\ armed[no]
        /\ attempts[no] = 0


(***************************************************************************)
(* C33: for one in-flight entry at most one forward RPC to the destination *)
(* is outstanding at any time, and the timeout starts a redelivery of the  *)
(* entry only when every earlier delivery of it has returned.              *)
(***************************************************************************)
\* the attempts of entry no whose forward RPC has been sent and has not returned
C33_Outstanding(no) == {a \in Calls : dpc[no][a] \in {"rpc", "recvd"}}

\* the attempts of entry no that have started and not returned
C33_Running(no) == {a \in Calls : dpc[no][a] \in {"arm", "send", "rpc", "recvd"}}

C33_OneOutstanding == \A no \in Nos : Cardinality(C33_Outstanding(no)) <= 1

C33_RedeliveryAfterReturn ==
    \A no \in Nos, a \in Calls :
        (a > 0 /\ dpc[no][a] = "none" /\ dpc'[no][a] = "arm") => C33_Running(no) = {}

C33_OneForwardAtATime == []C33_OneOutstanding /\ [][C33_RedeliveryAfterReturn]_vars

(***************************************************************************)
(* C34: SyncProposeToSlot fails without proposing, locally or by RPC, when *)
(* the node's cluster manager does not hold the slot, or when the node is  *)
(* no peer of the slot and the manager names no leader; on a node that is  *)
(* no peer and knows a leader the bytes go to that leader by one peer RPC, *)
(* and an RPC error or a status other than Success ends the call with an   *)
(* error and no result data.                                               *)
(***************************************************************************)
\* call c enters SyncProposeToSlot in this step
C34_Enters(c) == call[c].pc = "idle" /\ call'[c].pc # "idle"

\* the call ended in this step with an error, nothing proposed and no RPC sent
C34_FailedUnproposed(c) ==
    /\ call'[c].pc = "done"
    /\ call'[c].err
    /\ call'[c].result = NoData
    /\ call'[c].rpcs = 0
    /\ slotLog' = slotLog

C34_EntryStep ==
    \A c \in CallIds :
        C34_Enters(c) =>
            LET n == call'[c].node IN
            /\ ~slotKnown[n] => C34_FailedUnproposed(c)
            /\ (slotKnown[n] /\ n \notin SlotPeers /\ leaderHint[n] = 0) => C34_FailedUnproposed(c)
            /\ (slotKnown[n] /\ n \notin SlotPeers /\ leaderHint[n] # 0) =>
                   /\ call'[c].pc = "rpc"
                   /\ call'[c].target = leaderHint[n]
                   /\ call'[c].rpcs = 1
                   /\ slotLog' = slotLog

\* a call that went to the leader by RPC and was not answered Success ended in error
C34_RemoteFailureIsError ==
    \A c \in CallIds :
        (call[c].pc = "done" /\ call[c].rpcs > 0 /\ call[c].status # "Success") =>
            (call[c].err /\ call[c].result = NoData)

\* a call that ended without proposing stays ended
C34_DoneIsFinal ==
    \A c \in CallIds : call[c].pc = "done" => call'[c] = call[c]

C34_FailsOrForwardsToLeader ==
    /\ []C34_RemoteFailureIsError
    /\ [][C34_EntryStep /\ C34_DoneIsFinal]_vars

\* one call failed for want of a leader, another went to the known leader by RPC
\* and was answered with a status other than Success
C34_Witness ==
    \E c, d \in CallIds :
        /\ call[c].pc = "done" /\ call[c].status = "leaderNil" /\ call[c].rpcs = 0
        /\ call[d].pc = "done" /\ call[d].node \notin SlotPeers /\ call[d].rpcs = 1
        /\ call[d].status \in {"NotLeader", "Error", "Unavailable"}
        /\ call[d].err

(***************************************************************************)
(* C35: a slot group is started at most once on a node: whatever           *)
(* SlotActions events arrive, repeated Start actions for one slot          *)
(* included, handleSlotActions calls startSlot only for a slot that is in  *)
(* the configuration and whose group multiRaft does not report as started. *)
(***************************************************************************)
\* the Start actions for which startSlot was called
C35_Calls == {i \in 1..Len(saLog) : saLog[i].called}

C35_CalledOnlyWhenAbsent ==
    \A i \in C35_Calls : saLog[i].exists /\ ~saLog[i].isStarted

C35_AtMostOnce ==
    \A s \in SaSlots :
        /\ saCount[s] <= 1
        /\ saCount[s] = Cardinality({i \in C35_Calls : saLog[i].slot = s})
        /\ (saCount[s] = 1) = (GetSlotState(saStarted, s) = "SlotStateStarted")

C35_SlotStartedAtMostOnce == C35_CalledOnlyWhenAbsent /\ C35_AtMostOnce

\* a Start action started the group of a slot, a later Start action for the same
\* slot found it started, and a Start action for a slot that is not in the
\* configuration started nothing
C35_Witness ==
    /\ \E i, j \in 1..Len(saLog) :
           /\ i < j
           /\ saLog[i].slot = saLog[j].slot
           /\ saLog[i].called
           /\ saLog[j].isStarted /\ ~saLog[j].called
    /\ \E k \in 1..Len(saLog) : ~saLog[k].exists /\ ~saLog[k].called
    /\ \E s \in SaSlots : saCount[s] = 1

====
